---- MODULE Spec2Model ----
(***************************************************************************)
(* Sink: an authoritative table server, its clients, the table updates     *)
(* and the shift context, modelled from the TypeScript sources.            *)
(*                                                                         *)
(* JavaScript objects that are shared by reference (Message and the        *)
(* TableUpdate it carries) live in the store `msgs`, keyed by the message  *)
(* UUID; the outbox, the pending queue and the history hold UUIDs, so a    *)
(* mutation through one holder is seen through every other one.            *)
(* A JavaScript Map whose iteration order can be observed is a sequence of *)
(* <<key, value>> pairs in insertion order.  Row indices are 0-based as in *)
(* the source.                                                             *)
(***************************************************************************)
EXTENDS Integers, Sequences, FiniteSets, TLC

(***************************************************************************)
(* Bounds of the model.                                                    *)
(***************************************************************************)
\* Messages a run may create (over all clients) with an immediate server.
MaxMsgs == 3
\* Messages a run may create (over all clients) with a delayed server.
MaxDelayedMsgs == 2
\* Nesting depth of JSON.stringify on a string value that the table-level
\* specification explores.
MaxQuote == 1
\* Length of the shift record list the shift-context specification builds.
MaxShifts == 3
\* Largest row index the shift-context specification records or transforms.
MaxIdx == 3

Clients == {"A", "B"}
\* What the clients' edits are drawn from.
RowIDs == {"r1", "r2"}
ColumnIDs == {"c1"}
CellRowIDs == {"r1"}
TextLits == {"foo"}
NumberLits == {"0"}
TargetIndices == {0, 1}
\* What the updates of the table-level specification are drawn from.
SheetRowIDs == {"r1", "r2"}
SheetColumnIDs == {"c1", "c2"}
SheetTextLits == {"foo", "0"}
SheetNumberLits == {"0"}
SheetTargets == {-1, 0, 1, 2}
\* Constructor argument `delay` of the delayed server, in milliseconds.
SomeDelay == 1

(***************************************************************************)
(* Cell values.  A JavaScript value is a record: its typeof, its literal   *)
(* text and, for a string, how many times JSON.stringify has quoted it.    *)
(***************************************************************************)
Undefined == [t |-> "undefined", lit |-> "", q |-> 0]
StrVal(s, q) == [t |-> "string", lit |-> s, q |-> q]
NumVal(s) == [t |-> "number", lit |-> s, q |-> 0]

\* Literals parseFloat reads as a number.
NumericLits == {"0", "1"}

\* JSON.stringify(value): a number prints as its literal, a string gains one
\* pair of quotes.
JSONStringify(value) ==
  IF value.t = "number" THEN StrVal(value.lit, 0)
  ELSE StrVal(value.lit, value.q + 1)

\* parseFloat(value) with the isNaN test: Undefined stands for NaN.  A
\* quoted string starts with '"' and parses to NaN.
ParseFloat(value) ==
  IF value.t = "number" THEN value
  ELSE IF value.q = 0 /\ value.lit \in NumericLits THEN NumVal(value.lit)
  ELSE Undefined

TypeText == "text"
TypeNumber == "number"
Types == {TypeText, TypeNumber}

\* Type.coerce
Coerce(type, value) ==
  IF value = Undefined THEN Undefined
  ELSE IF type = TypeText THEN JSONStringify(value)
  ELSE IF type = TypeNumber THEN ParseFloat(value)
  ELSE Undefined

\* Type.toString
TypeToString(type) ==
  IF type = TypeText THEN "text"
  ELSE IF type = TypeNumber THEN "number"
  ELSE "undefined"

(***************************************************************************)
(* Insertion-ordered maps (JavaScript Map) and partial functions.          *)
(***************************************************************************)
MapHas(m, k) == \E i \in 1..Len(m) : m[i][1] = k
MapGet(m, k, undef) ==
  IF MapHas(m, k) THEN m[CHOOSE i \in 1..Len(m) : m[i][1] = k][2] ELSE undef
\* Map.set keeps the position of a key that is already present.
MapSet(m, k, v) ==
  IF MapHas(m, k)
  THEN [i \in 1..Len(m) |-> IF m[i][1] = k THEN <<k, v>> ELSE m[i]]
  ELSE Append(m, <<k, v>>)
MapDelete(m, k) == SelectSeq(m, LAMBDA e : e[1] # k)

EmptyFun == [x \in {} |-> 0]
FunSet(f, k, v) == (k :> v) @@ f
FunDel(f, k) == [x \in DOMAIN f \ {k} |-> f[x]]

(***************************************************************************)
(* Array.prototype.splice on the row order.                                *)
(***************************************************************************)
\* splice(start, 1) with 0 <= start < length.
SpliceRemove(order, start) ==
  [i \in 1..(Len(order) - 1) |-> IF i <= start THEN order[i] ELSE order[i + 1]]

\* The position splice(index, 0, item) inserts at: an index past the end is
\* the end, a negative index counts from the end and stops at 0.
SpliceStart(len, index) ==
  IF index > len THEN len
  ELSE IF index < 0 THEN (IF len + index < 0 THEN 0 ELSE len + index)
  ELSE index

SpliceInsert(order, index, item) ==
  LET at == SpliceStart(Len(order), index)
  IN [i \in 1..(Len(order) + 1) |->
        IF i <= at THEN order[i]
        ELSE IF i = at + 1 THEN item
        ELSE order[i - 1]]

(***************************************************************************)
(* Table                                                                   *)
(***************************************************************************)
\* new Table()
NewTable == [cells |-> EmptyFun, columns |-> <<>>, rows |-> EmptyFun, order |-> <<>>]

\* Variant of ComputeRowMap: the map is left as it is.
ComputeRowMapStale(T) == T

\* Table.computeRowMap
ComputeRowMap(T) ==
  [T EXCEPT !.rows =
     [r \in {T.order[i] : i \in 1..Len(T.order)} |->
        (CHOOSE i \in 1..Len(T.order) :
           T.order[i] = r /\ \A j \in (i + 1)..Len(T.order) : T.order[j] # r) - 1]]

\* Table.copy: fresh maps and a fresh array holding the same entries.
TableCopy(T) ==
  [cells |-> [r \in DOMAIN T.cells |-> T.cells[r]],
   columns |-> T.columns,
   rows |-> T.rows,
   order |-> T.order]

\* Table.serialize: the JSON text, as the structure JSON.stringify prints.
Serialize(T) ==
  [columns |-> [i \in 1..Len(T.columns) |->
                  [id |-> T.columns[i][1], type |-> TypeToString(T.columns[i][2])]],
   rows |-> [i \in 1..Len(T.order) |->
               [id |-> T.order[i], cellValuesByColumnId |-> T.cells[T.order[i]]]]]

(***************************************************************************)
(* ShiftContext                                                            *)
(***************************************************************************)
ShiftRecord(type, index) == [type |-> type, index |-> index]

\* new ShiftContext()
NewShiftContext == <<>>

\* ShiftContext.insertAt
InsertAt(shifts, index) == Append(shifts, ShiftRecord("Insert", index))

\* ShiftContext.deleteAt
DeleteAt(shifts, index) == Append(shifts, ShiftRecord("Delete", index))

\* ShiftContext.move
Move(shifts, start, end) ==
  Append(Append(shifts, ShiftRecord("Delete", start)), ShiftRecord("Insert", end))

\* Variant of TransformStep: an insertion at the index itself does not move it.
TransformStepInsertStrict(shift, index) ==
  IF shift.type = "Insert"
  THEN index + (IF index > shift.index THEN 1 ELSE 0)
  ELSE IF shift.type = "Delete"
  THEN IF index = shift.index THEN index
       ELSE index - (IF index > shift.index THEN 1 ELSE 0)
  ELSE index

\* One call of the forEach callback of ShiftContext.transform.  The
\* `return -1` of the Delete branch returns from the callback, not from
\* transform: the index is left as it is and the iteration goes on.
TransformStep(shift, index) ==
  IF shift.type = "Insert"
  THEN index + (IF index >= shift.index THEN 1 ELSE 0)
  ELSE IF shift.type = "Delete"
  THEN IF index = shift.index THEN index
       ELSE index - (IF index > shift.index THEN 1 ELSE 0)
  ELSE index

RECURSIVE TransformFrom(_, _, _)
TransformFrom(shifts, i, index) ==
  IF i > Len(shifts) THEN index
  ELSE TransformFrom(shifts, i + 1, TransformStep(shifts[i], index))

\* ShiftContext.transform
ShiftTransform(shifts, index) == TransformFrom(shifts, 1, index)

(***************************************************************************)
(* TableUpdate: the eight updates.  An update object is a record; `index`  *)
(* (DestroyRow) and `start` (MoveRow) are the private fields apply saves.  *)
(***************************************************************************)
Update(kind, rowID, columnID, columnType, cellValue, targetIndex) ==
  [kind |-> kind, rowID |-> rowID, columnID |-> columnID, columnType |-> columnType,
   cellValue |-> cellValue, targetIndex |-> targetIndex, index |-> -1, start |-> -1]

CreateRow(rowID) == Update("CreateRow", rowID, "", "", Undefined, 0)
DestroyRow(rowID) == Update("DestroyRow", rowID, "", "", Undefined, 0)
MoveRow(rowID, targetIndex) == Update("MoveRow", rowID, "", "", Undefined, targetIndex)
CreateColumn(columnID, columnType) ==
  Update("CreateColumn", "", columnID, columnType, Undefined, 0)
DestroyColumn(columnID) == Update("DestroyColumn", "", columnID, "", Undefined, 0)
UpdateColumnType(columnID, columnType) ==
  Update("UpdateColumnType", "", columnID, columnType, Undefined, 0)
UpdateTextCellValue(rowID, columnID, cellValue) ==
  Update("UpdateTextCellValue", rowID, columnID, "", cellValue, 0)
UpdateNumberCellValue(rowID, columnID, cellValue) ==
  Update("UpdateNumberCellValue", rowID, columnID, "", cellValue, 0)

\* What apply hands back: its return value, the table and the update object
\* as the call leaves them.
Applied(ok, table, update) == [ok |-> ok, table |-> table, update |-> update]

\* TableUpdate.needsTransform: the base class method; no subclass overrides it.
NeedsTransform(u) == FALSE

\* TableUpdate.transform, MoveRow.transform
Transform(u, shifts) ==
  IF u.kind = "MoveRow"
  THEN [u EXCEPT !.targetIndex = ShiftTransform(shifts, u.targetIndex)]
  ELSE u

\* TableUpdate.shift, DestroyRow.shift, MoveRow.shift: the context after the
\* call, or the Error thrown.
Shift(u, shifts) ==
  IF u.kind = "DestroyRow"
  THEN IF u.index = -1
       THEN [threw |-> "shift called before apply", shifts |-> shifts]
       ELSE [threw |-> "none", shifts |-> DeleteAt(shifts, u.index)]
  ELSE IF u.kind = "MoveRow"
  THEN IF u.start = -1
       THEN [threw |-> "shift called before apply", shifts |-> shifts]
       ELSE [threw |-> "none", shifts |-> Move(shifts, u.start, u.targetIndex)]
  ELSE [threw |-> "none", shifts |-> shifts]

\* Variant of CreateRowApply: the cell map is set before the existence test.
CreateRowApplyEager(u, T) ==
  LET T1 == [T EXCEPT !.cells = FunSet(T.cells, u.rowID, <<>>)]
  IN IF u.rowID \in DOMAIN T.rows THEN Applied(FALSE, T1, u)
     ELSE LET T2 == [T1 EXCEPT !.order = Append(T1.order, u.rowID)]
          IN Applied(TRUE, ComputeRowMap(T2), u)

\* CreateRow.apply
CreateRowApply(u, T) ==
  IF u.rowID \in DOMAIN T.rows THEN Applied(FALSE, T, u)
  ELSE LET T1 == [T EXCEPT !.cells = FunSet(T.cells, u.rowID, <<>>)]
           T2 == [T1 EXCEPT !.order = Append(T1.order, u.rowID)]
       IN Applied(TRUE, ComputeRowMap(T2), u)

\* Variant of DestroyRowApply: the cell map of the row is kept.
DestroyRowApplyKeepCells(u, T) ==
  IF u.rowID \notin DOMAIN T.rows THEN Applied(FALSE, T, u)
  ELSE LET u1 == [u EXCEPT !.index = T.rows[u.rowID]]
           T1 == [T EXCEPT !.order = SpliceRemove(T.order, u1.index)]
       IN Applied(TRUE, ComputeRowMap(T1), u1)

\* DestroyRow.apply
DestroyRowApply(u, T) ==
  IF u.rowID \notin DOMAIN T.rows THEN Applied(FALSE, T, u)
  ELSE LET u1 == [u EXCEPT !.index = T.rows[u.rowID]]
           T1 == [T EXCEPT !.cells = FunDel(T.cells, u.rowID)]
           T2 == [T1 EXCEPT !.order = SpliceRemove(T1.order, u1.index)]
       IN Applied(TRUE, ComputeRowMap(T2), u1)

\* MoveRow.apply
MoveRowApply(u, T) ==
  IF u.rowID \notin DOMAIN T.rows THEN Applied(FALSE, T, u)
  ELSE LET u1 == [u EXCEPT !.start = T.rows[u.rowID]]
           rowID == T.order[u1.start + 1]
           T1 == [T EXCEPT !.order = SpliceRemove(T.order, u1.start)]
           T2 == [T1 EXCEPT !.order = SpliceInsert(T1.order, u1.targetIndex, rowID)]
       IN Applied(TRUE, ComputeRowMap(T2), u1)

\* CreateColumn.apply
CreateColumnApply(u, T) ==
  IF MapHas(T.columns, u.columnID) THEN Applied(FALSE, T, u)
  ELSE Applied(TRUE, [T EXCEPT !.columns = MapSet(T.columns, u.columnID, u.columnType)], u)

\* Variant of DestroyColumnApply: the rows keep their cells of the column.
DestroyColumnApplyKeepCells(u, T) ==
  IF ~MapHas(T.columns, u.columnID) THEN Applied(FALSE, T, u)
  ELSE Applied(TRUE, [T EXCEPT !.columns = MapDelete(T.columns, u.columnID)], u)

\* DestroyColumn.apply
DestroyColumnApply(u, T) ==
  IF ~MapHas(T.columns, u.columnID) THEN Applied(FALSE, T, u)
  ELSE LET T1 == [T EXCEPT !.columns = MapDelete(T.columns, u.columnID)]
           T2 == [T1 EXCEPT !.cells =
                    [r \in DOMAIN T1.cells |-> MapDelete(T1.cells[r], u.columnID)]]
       IN Applied(TRUE, T2, u)

\* UpdateColumnType.apply: the first forEach decides canCoerce (a row with no
\* cell under the column reads undefined, which coerces to undefined), the
\* second one stores the coerced values.  table.columns is not written.
UpdateColumnTypeApply(u, T) ==
  IF ~MapHas(T.columns, u.columnID) THEN Applied(FALSE, T, u)
  ELSE LET canCoerce ==
             \A r \in DOMAIN T.cells :
                Coerce(u.columnType, MapGet(T.cells[r], u.columnID, Undefined)) # Undefined
       IN IF ~canCoerce THEN Applied(FALSE, T, u)
          ELSE Applied(TRUE,
                 [T EXCEPT !.cells =
                    [r \in DOMAIN T.cells |->
                       MapSet(T.cells[r], u.columnID,
                              Coerce(u.columnType, MapGet(T.cells[r], u.columnID, Undefined)))]],
                 u)

\* Variant of UpdateTextCellValueApply: the type of the column is not tested.
UpdateTextCellValueApplyAnyType(u, T) ==
  LET type == MapGet(T.columns, u.columnID, "undefined")
  IN IF type = "undefined" THEN Applied(FALSE, T, u)
     ELSE IF u.rowID \notin DOMAIN T.rows THEN Applied(FALSE, T, u)
     ELSE Applied(TRUE,
            [T EXCEPT !.cells = FunSet(T.cells, u.rowID,
                                       MapSet(T.cells[u.rowID], u.columnID, u.cellValue))],
            u)

\* Variant of UpdateTextCellValueApply: a cell that holds a value keeps it.
UpdateTextCellValueApplyKeepFirst(u, T) ==
  LET type == MapGet(T.columns, u.columnID, "undefined")
  IN IF type = "undefined" THEN Applied(FALSE, T, u)
     ELSE IF u.rowID \notin DOMAIN T.rows THEN Applied(FALSE, T, u)
     ELSE IF type # TypeText THEN Applied(FALSE, T, u)
     ELSE IF MapHas(T.cells[u.rowID], u.columnID) THEN Applied(TRUE, T, u)
     ELSE Applied(TRUE,
            [T EXCEPT !.cells = FunSet(T.cells, u.rowID,
                                       MapSet(T.cells[u.rowID], u.columnID, u.cellValue))],
            u)

\* UpdateTextCellValue.apply
UpdateTextCellValueApply(u, T) ==
  LET type == MapGet(T.columns, u.columnID, "undefined")
  IN IF type = "undefined" THEN Applied(FALSE, T, u)
     ELSE IF u.rowID \notin DOMAIN T.rows THEN Applied(FALSE, T, u)
     ELSE IF type # TypeText THEN Applied(FALSE, T, u)
     ELSE Applied(TRUE,
            [T EXCEPT !.cells = FunSet(T.cells, u.rowID,
                                       MapSet(T.cells[u.rowID], u.columnID, u.cellValue))],
            u)

\* UpdateNumberCellValue.apply
UpdateNumberCellValueApply(u, T) ==
  LET type == MapGet(T.columns, u.columnID, "undefined")
  IN IF type = "undefined" THEN Applied(FALSE, T, u)
     ELSE IF u.rowID \notin DOMAIN T.rows THEN Applied(FALSE, T, u)
     ELSE IF type # TypeNumber THEN Applied(FALSE, T, u)
     ELSE Applied(TRUE,
            [T EXCEPT !.cells = FunSet(T.cells, u.rowID,
                                       MapSet(T.cells[u.rowID], u.columnID, u.cellValue))],
            u)

\* update.apply(table): dispatch on the class of the update.
Apply(u, T) ==
  CASE u.kind = "CreateRow" -> CreateRowApply(u, T)
    [] u.kind = "DestroyRow" -> DestroyRowApply(u, T)
    [] u.kind = "MoveRow" -> MoveRowApply(u, T)
    [] u.kind = "CreateColumn" -> CreateColumnApply(u, T)
    [] u.kind = "DestroyColumn" -> DestroyColumnApply(u, T)
    [] u.kind = "UpdateColumnType" -> UpdateColumnTypeApply(u, T)
    [] u.kind = "UpdateTextCellValue" -> UpdateTextCellValueApply(u, T)
    [] u.kind = "UpdateNumberCellValue" -> UpdateNumberCellValueApply(u, T)

(***************************************************************************)
(* State                                                                   *)
(***************************************************************************)
VARIABLES
  table,      \* Server.table
  history,    \* Server.history: version -> UUID of the accepted message
  pending,    \* Server.pending: queue of UUIDs
  failed,     \* Server.failed: set of group IDs
  clients,    \* Server.clients: the Set, in insertion order
  version,    \* Server.version
  delay,      \* Server.delay
  timer,      \* the setTimeout of the constructor has not fired yet
  msgs,       \* the Message objects alive, by UUID
  cTable,     \* Client.table, per client
  outbox,     \* Client.outbox, per client: queue of UUIDs
  groupID,    \* Client.groupID, per client
  cVersion,   \* Client.version, per client
  online,     \* Client.online, per client
  nextUUID,   \* the next value UUIDV4() returns for a message
  nextGroup,  \* the next value UUIDV4() returns for a group
  error,      \* the first Error thrown out of a handler, or "none"
  arrivals,   \* trace of the last handler: UUIDs in the order receive enqueued them
  log,        \* trace of the last handler: what process did with each message
  shifts,     \* a ShiftContext of its own (shift-context specification)
  probe,      \* the last call made on `shifts` and what it returned
  sheet       \* a Table of its own (table-level specification)

vars == <<table, history, pending, failed, clients, version, delay, timer, msgs,
          cTable, outbox, groupID, cVersion, online, nextUUID, nextGroup, error,
          arrivals, log, shifts, probe, sheet>>

sysVars == <<table, history, pending, failed, clients, version, delay, timer, msgs,
             cTable, outbox, groupID, cVersion, online, nextUUID, nextGroup, error,
             arrivals, log>>

\* new Message(version, groupID, update): the UUID defaults to a fresh one.
Message(v, g, update, uuid) ==
  [version |-> v, groupID |-> g, update |-> update, UUID |-> uuid]

\* An assignment to message.version or to a field of message.update, seen
\* through every reference to the Message with that UUID.
SetVersion(ms, uuid, v) == FunSet(ms, uuid, [ms[uuid] EXCEPT !.version = v])
SetUpdate(ms, uuid, update) == FunSet(ms, uuid, [ms[uuid] EXCEPT !.update = update])

\* Everything a handler and the calls nested in it can change, as one record,
\* when the handler is entered: nothing thrown, nothing enqueued or decided
\* yet, no callback made yet (inbox: the callbacks each client gets).
World ==
  [table |-> table, history |-> history, pending |-> pending, failed |-> failed,
   clients |-> clients, version |-> version, msgs |-> msgs, cTable |-> cTable,
   outbox |-> outbox, groupID |-> groupID, cVersion |-> cVersion, online |-> online,
   nextGroup |-> nextGroup, arrivals |-> <<>>, log |-> <<>>,
   inbox |-> [c \in Clients |-> <<>>], threw |-> "none"]

\* The UUIDs of the Message objects something still refers to.
Live(w) ==
  {w.pending[i] : i \in 1..Len(w.pending)}
    \cup {w.history[i] : i \in DOMAIN w.history}
    \cup UNION {{w.outbox[c][i] : i \in 1..Len(w.outbox[c])} : c \in Clients}

\* The variables after a handler that left the world as w.
Commit(w) ==
  /\ table' = w.table
  /\ history' = w.history
  /\ pending' = w.pending
  /\ failed' = w.failed
  /\ clients' = w.clients
  /\ version' = w.version
  /\ msgs' = [u \in Live(w) |-> w.msgs[u]]
  /\ cTable' = w.cTable
  /\ outbox' = w.outbox
  /\ groupID' = w.groupID
  /\ cVersion' = w.cVersion
  /\ online' = w.online
  /\ nextGroup' = w.nextGroup
  /\ arrivals' = w.arrivals
  /\ log' = w.log
  /\ error' = IF error = "none" THEN w.threw ELSE error

(***************************************************************************)
(* Client callbacks                                                        *)
(***************************************************************************)
\* Variant of Sync: the group is rotated also when the version is the client's own.
SyncRotateAlways(w, c, T, v) ==
  LET w1 == IF v >= w.cVersion[c]
            THEN [w EXCEPT !.groupID = FunSet(w.groupID, c, w.nextGroup),
                           !.nextGroup = w.nextGroup + 1]
            ELSE w
  IN [w1 EXCEPT !.cVersion = FunSet(w1.cVersion, c, v),
                 !.cTable = FunSet(w1.cTable, c, T)]

\* Client.sync
Sync(w, c, T, v) ==
  LET w1 == IF v > w.cVersion[c]
            THEN [w EXCEPT !.groupID = FunSet(w.groupID, c, w.nextGroup),
                           !.nextGroup = w.nextGroup + 1]
            ELSE w
  IN [w1 EXCEPT !.cVersion = FunSet(w1.cVersion, c, v),
                 !.cTable = FunSet(w1.cTable, c, T)]

\* Variant of Accepted: the version advances and the mirror is left as it is.
AcceptedKeepMirror(w, c, uuid) ==
  IF w.msgs[uuid].version # w.cVersion[c] + 1
  THEN [w EXCEPT !.threw = "unexpected version"]
  ELSE [w EXCEPT !.cVersion = FunSet(w.cVersion, c, w.msgs[uuid].version),
                 !.groupID = FunSet(w.groupID, c, w.nextGroup),
                 !.nextGroup = w.nextGroup + 1,
                 !.inbox = FunSet(w.inbox, c, Append(w.inbox[c], <<"accepted", uuid>>))]

\* Variant of Accepted: the version of the message is not tested.
AcceptedUnchecked(w, c, uuid) ==
  LET res == Apply(w.msgs[uuid].update, w.cTable[c])
  IN [w EXCEPT !.cTable = FunSet(w.cTable, c, res.table),
               !.msgs = SetUpdate(w.msgs, uuid, res.update),
               !.cVersion = FunSet(w.cVersion, c, w.msgs[uuid].version),
               !.groupID = FunSet(w.groupID, c, w.nextGroup),
               !.nextGroup = w.nextGroup + 1,
               !.inbox = FunSet(w.inbox, c, Append(w.inbox[c], <<"accepted", uuid>>))]

\* Client.accepted
Accepted(w, c, uuid) ==
  IF w.msgs[uuid].version # w.cVersion[c] + 1
  THEN [w EXCEPT !.threw = "unexpected version"]
  ELSE LET res == Apply(w.msgs[uuid].update, w.cTable[c])
       IN [w EXCEPT !.cTable = FunSet(w.cTable, c, res.table),
                    !.msgs = SetUpdate(w.msgs, uuid, res.update),
                    !.cVersion = FunSet(w.cVersion, c, w.msgs[uuid].version),
                    !.groupID = FunSet(w.groupID, c, w.nextGroup),
                    !.nextGroup = w.nextGroup + 1,
                    !.inbox = FunSet(w.inbox, c, Append(w.inbox[c], <<"accepted", uuid>>))]

\* Client.rejected: the client is informed and changes none of its state.
Rejected(w, c, uuid, g) ==
  [w EXCEPT !.inbox = FunSet(w.inbox, c, Append(w.inbox[c], <<"rejected", uuid, g>>))]

(***************************************************************************)
(* Server                                                                  *)
(***************************************************************************)
\* Server.accept: clients.forEach, left as soon as a callback throws.
RECURSIVE AcceptFrom(_, _, _)
AcceptFrom(w, uuid, i) ==
  IF i > Len(w.clients) \/ w.threw # "none" THEN w
  ELSE AcceptFrom(Accepted(w, w.clients[i], uuid), uuid, i + 1)

\* Variant of Accept: only the client that connected last is told.
AcceptLastOnly(w, uuid) == AcceptFrom(w, uuid, Len(w.clients))

Accept(w, uuid) == AcceptFrom(w, uuid, 1)

\* Server.reject
RECURSIVE RejectFrom(_, _, _, _)
RejectFrom(w, uuid, g, i) ==
  IF i > Len(w.clients) \/ w.threw # "none" THEN w
  ELSE RejectFrom(Rejected(w, w.clients[i], uuid, g), uuid, g, i + 1)

Reject(w, uuid, g) == RejectFrom(w, uuid, g, 1)

\* The first version whose shifts process folds into the context of a
\* message: the loop variable starts at message.version.
ShiftLoopStart(messageVersion) == messageVersion

\* The loop of process that accumulates the shift context: history[i] for
\* i from ShiftLoopStart(message.version) to this.version.  Reading .update
\* of an empty history slot is a TypeError.
RECURSIVE ShiftLoop(_, _, _)
ShiftLoop(w, i, ctx) ==
  IF i > w.version THEN [threw |-> "none", shifts |-> ctx]
  ELSE IF i \notin DOMAIN w.history THEN [threw |-> "TypeError", shifts |-> ctx]
  ELSE LET r == Shift(w.msgs[w.history[i]].update, ctx)
       IN IF r.threw # "none" THEN r ELSE ShiftLoop(w, i + 1, r.shifts)

\* The shift records of the updates accepted after version v, in version
\* order: what history[v + 1] ... history[w.version] contribute.
RECURSIVE InterveningFrom(_, _, _)
InterveningFrom(w, i, ctx) ==
  IF i > w.version \/ i \notin DOMAIN w.history THEN ctx
  ELSE InterveningFrom(w, i + 1, Shift(w.msgs[w.history[i]].update, ctx).shifts)

Intervening(w, v) == InterveningFrom(w, v + 1, NewShiftContext)

\* What the log keeps of one decision of process.  w0 is the world when the
\* message was dequeued, w1 the world when process is done with it.
LogEntry(w0, w1, uuid, outcome, transformed, ctx) ==
  [uuid |-> uuid,
   groupID |-> w0.msgs[uuid].groupID,
   kind |-> w0.msgs[uuid].update.kind,
   outcome |-> outcome,
   base |-> w0.msgs[uuid].version,
   at |-> w0.version,
   version |-> w1.version,
   transformed |-> transformed,
   shifts |-> ctx,
   intervening |-> Intervening(w0, w0.msgs[uuid].version),
   target0 |-> w0.msgs[uuid].update.targetIndex,
   target |-> w1.msgs[uuid].update.targetIndex,
   updateSame |-> w1.msgs[uuid].update = w0.msgs[uuid].update,
   connected |-> w0.clients,
   tableSame |-> w1.table = w0.table,
   historySame |-> w1.history = w0.history,
   failedBefore |-> w0.failed,
   failedAfter |-> w1.failed,
   mirrorsSame |-> w1.cTable = w0.cTable /\ w1.cVersion = w0.cVersion,
   told |-> [c \in Clients |-> SubSeq(w1.inbox[c], Len(w0.inbox[c]) + 1, Len(w1.inbox[c]))]]

Logged(w0, w1, uuid, outcome, transformed, ctx) ==
  [w1 EXCEPT !.log = Append(w1.log, LogEntry(w0, w1, uuid, outcome, transformed, ctx))]

\* Variant of ProcessSuccess: the message is stamped before the version is
\* incremented.
ProcessSuccessStampFirst(w, uuid) ==
  LET w1 == [w EXCEPT !.msgs = SetVersion(w.msgs, uuid, w.version)]
      w2 == [w1 EXCEPT !.version = w1.version + 1]
      w3 == [w2 EXCEPT !.history = FunSet(w2.history, w2.version, uuid)]
  IN Accept(w3, uuid)

\* Variant of ProcessSuccess: an acceptance forgets the groups that failed.
ProcessSuccessForgetFailures(w, uuid) ==
  LET w1 == [w EXCEPT !.version = w.version + 1, !.failed = {}]
      w2 == [w1 EXCEPT !.msgs = SetVersion(w1.msgs, uuid, w1.version)]
      w3 == [w2 EXCEPT !.history = FunSet(w2.history, w2.version, uuid)]
  IN Accept(w3, uuid)

\* The success branch of process.
ProcessSuccess(w, uuid) ==
  LET w1 == [w EXCEPT !.version = w.version + 1]
      w2 == [w1 EXCEPT !.msgs = SetVersion(w1.msgs, uuid, w1.version)]
      w3 == [w2 EXCEPT !.history = FunSet(w2.history, w2.version, uuid)]
  IN Accept(w3, uuid)

\* Variant of ProcessFailure: the rejection is broadcast and the group is not
\* recorded.
ProcessFailureUnrecorded(w, uuid) ==
  Reject(w, w.msgs[uuid].UUID, w.msgs[uuid].groupID)

\* The failure branch of process.
ProcessFailure(w, uuid) ==
  LET w1 == [w EXCEPT !.failed = w.failed \cup {w.msgs[uuid].groupID}]
  IN Reject(w1, w1.msgs[uuid].UUID, w1.msgs[uuid].groupID)

\* Variant of DependsOnFailure: no message is skipped.
DependsOnFailureNever(w, uuid) == FALSE

\* The test that makes process skip a message: its group has failed.
DependsOnFailure(w, uuid) == w.msgs[uuid].groupID \in w.failed

\* One turn of the while loop of process, for the message just dequeued.
ProcessOne(w0, uuid) ==
  IF DependsOnFailure(w0, uuid)
  THEN Logged(w0, w0, uuid, "dropped", FALSE, NewShiftContext)
  ELSE
    LET needs == NeedsTransform(w0.msgs[uuid].update)
        loop == IF needs
                THEN ShiftLoop(w0, ShiftLoopStart(w0.msgs[uuid].version), NewShiftContext)
                ELSE [threw |-> "none", shifts |-> NewShiftContext]
    IN IF loop.threw # "none"
       THEN Logged(w0, [w0 EXCEPT !.threw = loop.threw], uuid, "threw", needs, loop.shifts)
       ELSE
         LET w1 == IF needs
                   THEN [w0 EXCEPT !.msgs = SetUpdate(w0.msgs, uuid,
                                                     Transform(w0.msgs[uuid].update, loop.shifts))]
                   ELSE w0
             res == Apply(w1.msgs[uuid].update, w1.table)
             w2 == [w1 EXCEPT !.table = res.table, !.msgs = SetUpdate(w1.msgs, uuid, res.update)]
             w3 == IF res.ok THEN ProcessSuccess(w2, uuid) ELSE ProcessFailure(w2, uuid)
         IN Logged(w0, w3, uuid,
                   IF w3.threw # "none" THEN "threw"
                   ELSE IF res.ok THEN "accepted" ELSE "rejected",
                   needs, loop.shifts)

\* Variant of Dequeue: the item enqueued last is taken.
DequeueLast(queue) ==
  [item |-> queue[Len(queue)], rest |-> SubSeq(queue, 1, Len(queue) - 1)]

\* Queue.dequeue: the item taken and the queue left.
Dequeue(queue) == [item |-> Head(queue), rest |-> Tail(queue)]

\* Server.process
RECURSIVE Process(_)
Process(w) ==
  IF w.pending = <<>> \/ w.threw # "none" THEN w
  ELSE LET d == Dequeue(w.pending)
       IN Process(ProcessOne([w EXCEPT !.pending = d.rest], d.item))

\* Variant of Receive: the message is enqueued and waits for a tick whatever
\* the delay is.
ReceiveEnqueueOnly(w, uuid, d) ==
  [w EXCEPT !.pending = Append(w.pending, uuid),
            !.arrivals = Append(w.arrivals, uuid)]

\* Server.receive
Receive(w, uuid, d) ==
  LET w1 == [w EXCEPT !.pending = Append(w.pending, uuid),
                      !.arrivals = Append(w.arrivals, uuid)]
  IN IF d = 0 THEN Process(w1) ELSE w1

\* Variant of Connected: the client joins the connected set and is not synced.
ConnectedNoSync(w, c) ==
  IF \E i \in 1..Len(w.clients) : w.clients[i] = c
  THEN w
  ELSE [w EXCEPT !.clients = Append(w.clients, c)]

\* Variant of Connected: the client is synced with an empty table at the
\* server's version.
ConnectedEmptyTable(w, c) ==
  LET w1 == IF \E i \in 1..Len(w.clients) : w.clients[i] = c
            THEN w
            ELSE [w EXCEPT !.clients = Append(w.clients, c)]
  IN Sync(w1, c, NewTable, w1.version)

\* Server.connected: Set.add keeps a client that is already in the set where
\* it is.
Connected(w, c) ==
  LET w1 == IF \E i \in 1..Len(w.clients) : w.clients[i] = c
            THEN w
            ELSE [w EXCEPT !.clients = Append(w.clients, c)]
  IN Sync(w1, c, TableCopy(w1.table), w1.version)

\* Variant of Disconnected: the client stays in the connected set.
DisconnectedKeeps(w, c) == w

\* Server.disconnected
Disconnected(w, c) ==
  [w EXCEPT !.clients = SelectSeq(w.clients, LAMBDA x : x # c)]

(***************************************************************************)
(* Client                                                                  *)
(***************************************************************************)
\* Variant of Send: an offline client applies the stashed update to its mirror.
SendOptimistic(w, c, uuid, d) ==
  IF w.online[c] THEN Receive(w, uuid, d)
  ELSE [w EXCEPT !.outbox = FunSet(w.outbox, c, Append(w.outbox[c], uuid)),
                 !.cTable = FunSet(w.cTable, c, Apply(w.msgs[uuid].update, w.cTable[c]).table)]

\* Client.send
Send(w, c, uuid, d) ==
  IF w.online[c] THEN Receive(w, uuid, d)
  ELSE [w EXCEPT !.outbox = FunSet(w.outbox, c, Append(w.outbox[c], uuid))]

\* The body shared by createRow ... updateNumberCellValue: a new Message at
\* the client's version and group, handed to send.
Issue(w, c, update, uuid, d) ==
  Send([w EXCEPT !.msgs = FunSet(w.msgs, uuid,
                                 Message(w.cVersion[c], w.groupID[c], update, uuid))],
       c, uuid, d)

\* Variant of DeliverFrom: the outbox is delivered from its tail to its head.
RECURSIVE DeliverBackwards(_, _, _, _)
DeliverBackwards(w, items, i, d) ==
  IF i > Len(items) \/ w.threw # "none" THEN w
  ELSE DeliverBackwards(Receive(w, items[Len(items) + 1 - i], d), items, i + 1, d)

\* outbox.forEach(item => this.server.receive(item)) of comeOnline.
RECURSIVE DeliverFrom(_, _, _, _)
DeliverFrom(w, items, i, d) ==
  IF i > Len(items) \/ w.threw # "none" THEN w
  ELSE DeliverFrom(Receive(w, items[i], d), items, i + 1, d)

\* Variant of ComeOnlineBody: the outbox is not cleared after the delivery.
ComeOnlineBodyKeepOutbox(w, c, d) ==
  LET w1 == Connected(w, c)
      w2 == DeliverFrom(w1, w1.outbox[c], 1, d)
  IN IF w2.threw # "none" THEN w2
     ELSE [w2 EXCEPT !.online = FunSet(w2.online, c, TRUE)]

\* Client.comeOnline
ComeOnlineBody(w, c, d) ==
  LET w1 == Connected(w, c)
      w2 == DeliverFrom(w1, w1.outbox[c], 1, d)
  IN IF w2.threw # "none" THEN w2
     ELSE [w2 EXCEPT !.outbox = FunSet(w2.outbox, c, <<>>),
                     !.online = FunSet(w2.online, c, TRUE)]

\* Variant of GoOfflineBody: going offline starts a new group.
GoOfflineBodyRotates(w, c) ==
  LET w1 == Disconnected(w, c)
  IN [w1 EXCEPT !.online = FunSet(w1.online, c, FALSE),
                 !.groupID = FunSet(w1.groupID, c, w1.nextGroup),
                 !.nextGroup = w1.nextGroup + 1]

\* Client.goOffline
GoOfflineBody(w, c) ==
  LET w1 == Disconnected(w, c)
  IN [w1 EXCEPT !.online = FunSet(w1.online, c, FALSE)]

\* The forEach of getData: every outbox update is applied to the copy; the
\* return value of apply is not looked at.  apply writes the update object.
RECURSIVE ReplayFrom(_, _, _, _)
ReplayFrom(ms, items, i, T) ==
  IF i > Len(items) THEN [msgs |-> ms, table |-> T]
  ELSE LET res == Apply(ms[items[i]].update, T)
       IN ReplayFrom(SetUpdate(ms, items[i], res.update), items, i + 1, res.table)

\* Variant of GetDataBody: an offline client serializes its mirror as it is.
GetDataBodyMirrorOnly(w, c) ==
  [msgs |-> w.msgs, data |-> Serialize(w.cTable[c])]

\* Client.getData: the string returned and the message store it leaves.
GetDataBody(w, c) ==
  IF w.online[c] THEN [msgs |-> w.msgs, data |-> Serialize(w.cTable[c])]
  ELSE LET r == ReplayFrom(w.msgs, w.outbox[c], 1, TableCopy(w.cTable[c]))
       IN [msgs |-> r.msgs, data |-> Serialize(r.table)]

\* Server.getData
ServerGetData == Serialize(table)

(***************************************************************************)
(* Construction: new Server(delay), then new Client(server) for each       *)
(* client, with the default online = true.                                 *)
(***************************************************************************)
ClientOrder == <<"A", "B">>

NoProbe == [op |-> "none", arg |-> 0, arg2 |-> 0, before |-> <<>>, result |-> 0]

SysInit ==
  /\ table = NewTable
  /\ history = EmptyFun
  /\ pending = <<>>
  /\ failed = {}
  /\ clients = ClientOrder
  /\ version = 0
  /\ timer = (delay > 0)
  /\ msgs = EmptyFun
  /\ cTable = [c \in Clients |-> TableCopy(NewTable)]
  /\ outbox = [c \in Clients |-> <<>>]
  /\ groupID = [c \in Clients |-> CHOOSE i \in 1..Len(ClientOrder) : ClientOrder[i] = c]
  /\ cVersion = [c \in Clients |-> 0]
  /\ online = [c \in Clients |-> TRUE]
  /\ nextUUID = 1
  /\ nextGroup = Len(ClientOrder) + 1
  /\ error = "none"
  /\ arrivals = <<>>
  /\ log = <<>>

\* new Server(): the default delay = 0.
ImmediateInit == delay = 0 /\ SysInit

\* new Server(SomeDelay)
DelayedInit == delay = SomeDelay /\ SysInit

AuxInit ==
  /\ shifts = NewShiftContext
  /\ probe = NoProbe
  /\ sheet = NewTable

Init == ImmediateInit /\ AuxInit

(***************************************************************************)
(* Actions: one per public method, and the timer of the server.            *)
(***************************************************************************)
auxVars == <<shifts, probe, sheet>>

\* The run may create one more message.
CanEdit == nextUUID <= (IF delay = 0 THEN MaxMsgs ELSE MaxDelayedMsgs)

\* A client method that issues `update`.
Edit(c, update) ==
  /\ Commit(Issue(World, c, update, nextUUID, delay))
  /\ nextUUID' = nextUUID + 1
  /\ UNCHANGED <<delay, timer>>
  /\ UNCHANGED auxVars

ClientCreateRow(c, rowID) ==
  /\ CanEdit
  /\ Edit(c, CreateRow(rowID))

ClientDestroyRow(c, rowID) ==
  /\ CanEdit
  /\ Edit(c, DestroyRow(rowID))

ClientMoveRow(c, rowID, targetIndex) ==
  /\ CanEdit
  /\ Edit(c, MoveRow(rowID, targetIndex))

ClientCreateColumn(c, columnID, columnType) ==
  /\ CanEdit
  /\ Edit(c, CreateColumn(columnID, columnType))

ClientDestroyColumn(c, columnID) ==
  /\ CanEdit
  /\ Edit(c, DestroyColumn(columnID))

ClientUpdateColumnType(c, columnID, columnType) ==
  /\ CanEdit
  /\ Edit(c, UpdateColumnType(columnID, columnType))

ClientUpdateTextCellValue(c, rowID, columnID, lit) ==
  /\ CanEdit
  /\ Edit(c, UpdateTextCellValue(rowID, columnID, StrVal(lit, 0)))

ClientUpdateNumberCellValue(c, rowID, columnID, lit) ==
  /\ CanEdit
  /\ Edit(c, UpdateNumberCellValue(rowID, columnID, NumVal(lit)))

ComeOnline(c) ==
  /\ Commit(ComeOnlineBody(World, c, delay))
  /\ UNCHANGED <<delay, timer, nextUUID>>
  /\ UNCHANGED auxVars

GoOffline(c) ==
  /\ Commit(GoOfflineBody(World, c))
  /\ UNCHANGED <<delay, timer, nextUUID>>
  /\ UNCHANGED auxVars

GetData(c) ==
  /\ msgs' = GetDataBody(World, c).msgs
  /\ arrivals' = <<>>
  /\ log' = <<>>
  /\ UNCHANGED <<table, history, pending, failed, clients, version, delay, timer,
                 cTable, outbox, groupID, cVersion, online, nextUUID, nextGroup, error>>
  /\ UNCHANGED auxVars

\* The callback of setTimeout(() => this.process(), delay): it runs once.
Tick ==
  /\ timer
  /\ timer' = FALSE
  /\ Commit(Process(World))
  /\ UNCHANGED <<delay, nextUUID>>
  /\ UNCHANGED auxVars

Next ==
  \/ \E c \in Clients, r \in RowIDs : ClientCreateRow(c, r)
  \/ \E c \in Clients, r \in RowIDs : ClientDestroyRow(c, r)
  \/ \E c \in Clients, r \in RowIDs, t \in TargetIndices : ClientMoveRow(c, r, t)
  \/ \E c \in Clients, k \in ColumnIDs, ty \in Types : ClientCreateColumn(c, k, ty)
  \/ \E c \in Clients, k \in ColumnIDs : ClientDestroyColumn(c, k)
  \/ \E c \in Clients, k \in ColumnIDs, ty \in Types : ClientUpdateColumnType(c, k, ty)
  \/ \E c \in Clients, r \in CellRowIDs, k \in ColumnIDs, v \in TextLits :
       ClientUpdateTextCellValue(c, r, k, v)
  \/ \E c \in Clients, r \in CellRowIDs, k \in ColumnIDs, v \in NumberLits :
       ClientUpdateNumberCellValue(c, r, k, v)
  \/ \E c \in Clients : ComeOnline(c)
  \/ \E c \in Clients : GoOffline(c)
  \/ \E c \in Clients : GetData(c)

\* The system with an immediate server.
Spec == Init /\ [][Next]_vars

\* The system with a delayed server: the timer is one more step.
InitDelayed == DelayedInit /\ AuxInit
NextDelayed == Next \/ Tick
SpecDelayed == InitDelayed /\ [][NextDelayed]_vars

(***************************************************************************)
(* The table on its own: any update applied to a table that updates have   *)
(* built.                                                                  *)
(***************************************************************************)
\* The deepest JSON.stringify nesting among the values of a table.
QuoteDepth(T) ==
  LET qs == UNION {{T.cells[r][i][2].q : i \in 1..Len(T.cells[r])} : r \in DOMAIN T.cells}
  IN IF qs = {} THEN 0 ELSE CHOOSE q \in qs : \A p \in qs : p <= q

\* The table the update leaves stays within the nesting explored.
CanApply(update) == QuoteDepth(Apply(update, sheet).table) <= MaxQuote

\* update.apply(sheet)
SheetApply(update) ==
  /\ sheet' = Apply(update, sheet).table
  /\ UNCHANGED <<shifts, probe>>
  /\ UNCHANGED sysVars

SheetCreateRow(r) ==
  /\ CanApply(CreateRow(r))
  /\ SheetApply(CreateRow(r))

SheetDestroyRow(r) ==
  /\ CanApply(DestroyRow(r))
  /\ SheetApply(DestroyRow(r))

SheetMoveRow(r, t) ==
  /\ CanApply(MoveRow(r, t))
  /\ SheetApply(MoveRow(r, t))

SheetCreateColumn(k, ty) ==
  /\ CanApply(CreateColumn(k, ty))
  /\ SheetApply(CreateColumn(k, ty))

SheetDestroyColumn(k) ==
  /\ CanApply(DestroyColumn(k))
  /\ SheetApply(DestroyColumn(k))

SheetUpdateColumnType(k, ty) ==
  /\ CanApply(UpdateColumnType(k, ty))
  /\ SheetApply(UpdateColumnType(k, ty))

SheetUpdateTextCellValue(r, k, lit) ==
  /\ CanApply(UpdateTextCellValue(r, k, StrVal(lit, 0)))
  /\ SheetApply(UpdateTextCellValue(r, k, StrVal(lit, 0)))

SheetUpdateNumberCellValue(r, k, lit) ==
  /\ CanApply(UpdateNumberCellValue(r, k, NumVal(lit)))
  /\ SheetApply(UpdateNumberCellValue(r, k, NumVal(lit)))

NextTable ==
  \/ \E r \in SheetRowIDs : SheetCreateRow(r)
  \/ \E r \in SheetRowIDs : SheetDestroyRow(r)
  \/ \E r \in SheetRowIDs, t \in SheetTargets : SheetMoveRow(r, t)
  \/ \E k \in SheetColumnIDs, ty \in Types : SheetCreateColumn(k, ty)
  \/ \E k \in SheetColumnIDs : SheetDestroyColumn(k)
  \/ \E k \in SheetColumnIDs, ty \in Types : SheetUpdateColumnType(k, ty)
  \/ \E r \in SheetRowIDs, k \in SheetColumnIDs, v \in SheetTextLits :
       SheetUpdateTextCellValue(r, k, v)
  \/ \E r \in SheetRowIDs, k \in SheetColumnIDs, v \in SheetNumberLits :
       SheetUpdateNumberCellValue(r, k, v)

SpecTable == Init /\ [][NextTable]_vars

(***************************************************************************)
(* The shift context on its own: records appended by insertAt, deleteAt    *)
(* and move, and transform called on what they built.                      *)
(***************************************************************************)
Indices == 0..MaxIdx

CtxInsertAt(index) ==
  /\ Len(shifts) < MaxShifts
  /\ shifts' = InsertAt(shifts, index)
  /\ probe' = [op |-> "insertAt", arg |-> index, arg2 |-> 0, before |-> shifts, result |-> 0]
  /\ UNCHANGED sheet
  /\ UNCHANGED sysVars

CtxDeleteAt(index) ==
  /\ Len(shifts) < MaxShifts
  /\ shifts' = DeleteAt(shifts, index)
  /\ probe' = [op |-> "deleteAt", arg |-> index, arg2 |-> 0, before |-> shifts, result |-> 0]
  /\ UNCHANGED sheet
  /\ UNCHANGED sysVars

CtxMove(start, end) ==
  /\ Len(shifts) + 1 < MaxShifts
  /\ shifts' = Move(shifts, start, end)
  /\ probe' = [op |-> "move", arg |-> start, arg2 |-> end, before |-> shifts, result |-> 0]
  /\ UNCHANGED sheet
  /\ UNCHANGED sysVars

CtxTransform(index) ==
  /\ shifts' = shifts
  /\ probe' = [op |-> "transform", arg |-> index, arg2 |-> 0, before |-> shifts,
               result |-> ShiftTransform(shifts, index)]
  /\ UNCHANGED sheet
  /\ UNCHANGED sysVars

NextShift ==
  \/ \E i \in Indices : CtxInsertAt(i)
  \/ \E i \in Indices : CtxDeleteAt(i)
  \/ \E i \in Indices, j \in Indices : CtxMove(i, j)
  \/ \E i \in Indices : CtxTransform(i)

SpecShift == Init /\ [][NextShift]_vars

(***************************************************************************)
(* Properties                                                              *)
(***************************************************************************)
\* The decisions of the last handler, and those of one outcome.
Decisions == 1..Len(log)
DecisionsOf(entries, outcome) == {i \in 1..Len(entries) : entries[i].outcome = outcome}
DecidedIDs(entries) == [i \in 1..Len(entries) |-> entries[i].uuid]

\* C1 (convergence): whenever the pending queue is empty, every client of the
\* server's connected set whose outbox is empty holds a mirror that
\* serializes to what the server's table serializes to.
Convergence ==
  pending = <<>> =>
    \A i \in 1..Len(clients) :
      outbox[clients[i]] = <<>> =>
        Serialize(cTable[clients[i]]) = Serialize(table)

\* Both clients connected with nothing queued, after three accepted edits
\* that left a column, a row and a stored cell.
ConvergenceWitness ==
  /\ pending = <<>>
  /\ Len(clients) = 2
  /\ \A c \in Clients : outbox[c] = <<>>
  /\ version = 3
  /\ table.columns # <<>>
  /\ \E r \in DOMAIN table.cells : table.cells[r] # <<>>

\* C2 (total order by arrival): in every step, what was pending followed by
\* what the step enqueued is what the step decided followed by what is left
\* pending; accepted messages get strictly increasing versions in the order
\* they were decided, all above the version before the step.
ArrivalOrder ==
  [][/\ pending \o arrivals' = DecidedIDs(log') \o pending'
     /\ \A i \in DecisionsOf(log', "accepted") :
          /\ log'[i].version > version
          /\ msgs'[log'[i].uuid].version = log'[i].version
          /\ \A j \in DecisionsOf(log', "accepted") :
               i < j => log'[i].version < log'[j].version]_vars

\* The timer decided two messages that were enqueued in the order 2, 1 (the
\* message created first arrived second) and accepted both.
ArrivalOrderWitness ==
  /\ Len(log) = 2
  /\ log[1].uuid = 2 /\ log[2].uuid = 1
  /\ log[1].outcome = "accepted" /\ log[2].outcome = "accepted"
  /\ log[1].version = 1 /\ log[2].version = 2

\* The history holds slots 1..version, slot k holds a message stamped k, and
\* each decision of the last handler moved the version by one if it accepted
\* and not at all otherwise.
VersionInv ==
  /\ DOMAIN history = 1..version
  /\ \A k \in DOMAIN history : msgs[history[k]].version = k
  /\ \A k, l \in DOMAIN history : history[k] = history[l] => k = l
  /\ \A i \in Decisions :
       /\ log[i].at = (IF i = 1 THEN version - Cardinality(DecisionsOf(log, "accepted"))
                       ELSE log[i - 1].version)
       /\ IF log[i].outcome = "accepted"
          THEN log[i].version = log[i].at + 1 /\ history[log[i].version] = log[i].uuid
          ELSE log[i].version = log[i].at

\* A step adds to the version the number of messages it accepted.
VersionStep ==
  version' = version + Cardinality(DecisionsOf(log', "accepted"))

\* C3 (version accounting): the version starts at 0, is always the number of
\* filled history slots 1..version, the k-th accepted message is stamped k
\* and stored in slot k, and the version changes only by +1 per acceptance.
VersionAccounting ==
  /\ version = 0
  /\ []VersionInv
  /\ [][VersionStep]_vars

\* One handler accepted two messages and then rejected a third.
VersionAccountingWitness ==
  /\ Len(log) = 3
  /\ log[1].outcome = "accepted"
  /\ log[2].outcome = "accepted"
  /\ log[3].outcome = "rejected"
  /\ version = 2

\* C4 (merge conflict): a message whose update returned false has its group
\* added to the failed groups, rejected(UUID, groupID) delivered once to each
\* connected client and to nobody else, and the version, the history, the
\* table and every client's mirror and version left as they were.
RejectionHandling ==
  \A i \in DecisionsOf(log, "rejected") :
    /\ log[i].failedAfter = log[i].failedBefore \cup {log[i].groupID}
    /\ \A c \in Clients :
         log[i].told[c] =
           IF \E k \in 1..Len(log[i].connected) : log[i].connected[k] = c
           THEN <<(<<"rejected", log[i].uuid, log[i].groupID>>)>>
           ELSE <<>>
    /\ log[i].version = log[i].at
    /\ log[i].historySame
    /\ log[i].tableSame
    /\ log[i].mirrorsSame

\* A rejection with one client connected and the other not, on a server that
\* has accepted something before.
RejectionHandlingWitness ==
  \E i \in DecisionsOf(log, "rejected") :
    /\ Len(log[i].connected) = 1
    /\ log[i].at >= 1
    /\ log[i].groupID \notin log[i].failedBefore

\* C5 (dependent-group elision): a message is dropped exactly when its group
\* is among the failed groups as it is dequeued, and a dropped message is not
\* transformed or applied, nobody is told anything, and the table, the
\* version, the history, the failed groups and the mirrors are unchanged.
DependentElision ==
  \A i \in Decisions :
    /\ (log[i].groupID \in log[i].failedBefore) <=> (log[i].outcome = "dropped")
    /\ log[i].outcome = "dropped" =>
         /\ ~log[i].transformed
         /\ log[i].updateSame
         /\ \A c \in Clients : log[i].told[c] = <<>>
         /\ log[i].tableSame
         /\ log[i].historySame
         /\ log[i].version = log[i].at
         /\ log[i].failedAfter = log[i].failedBefore
         /\ log[i].mirrorsSame

\* A batch whose first edit was rejected and whose second edit, a createRow
\* that the empty table would have taken, was dropped.
DependentElisionWitness ==
  /\ Len(log) = 2
  /\ log[1].outcome = "rejected"
  /\ log[2].outcome = "dropped"
  /\ log[2].groupID = log[1].groupID
  /\ log[2].kind = "CreateRow"
  /\ table.order = <<>>

\* No decision of the last handler shrank the failed groups or accepted a
\* message of a group that had failed.
FailedInv ==
  \A i \in Decisions :
    /\ log[i].failedBefore \subseteq log[i].failedAfter
    /\ log[i].groupID \in log[i].failedBefore =>
         log[i].outcome # "accepted" /\ log[i].historySame

\* C6 (failed groups are monotone): no step removes a group from the failed
\* groups, and a message of a failed group is never accepted or put in the
\* history.
FailedMonotone ==
  /\ [][failed \subseteq failed']_vars
  /\ []FailedInv

\* A message of a group that failed in an earlier handler is dropped by a
\* later one, on a server that has accepted a message.
FailedMonotoneWitness ==
  /\ Len(log) = 1
  /\ log[1].outcome = "dropped"
  /\ log[1].groupID \in failed
  /\ log[1].at >= 1

\* C8 (stale row moves are rewritten): an accepted MoveRow whose baseline is
\* behind the version it is processed at was transformed, and its target is
\* the transform of the target it was authored with over the shift records of
\* the updates accepted in between.
StaleMovesRewritten ==
  \A i \in DecisionsOf(log, "accepted") :
    (log[i].kind = "MoveRow" /\ log[i].base < log[i].at) =>
      /\ log[i].transformed
      /\ log[i].target = ShiftTransform(log[i].intervening, log[i].target0)

\* The messages the server has not decided yet.
Undecided ==
  {pending[i] : i \in 1..Len(pending)}
    \cup UNION {{outbox[c][i] : i \in 1..Len(outbox[c])} : c \in Clients}

\* C9 (shift-context span): for a MoveRow with baseline v that the server
\* may be handed now, the context the loop of process accumulates is built
\* without an error and holds exactly what history[v + 1] ... history[version]
\* contribute.
ShiftSpanExact ==
  \A uuid \in {m \in Undecided : msgs[m].update.kind = "MoveRow"} :
    LET loop == ShiftLoop(World, ShiftLoopStart(msgs[uuid].version), NewShiftContext)
    IN /\ loop.threw = "none"
       /\ loop.shifts = Intervening(World, msgs[uuid].version)

\* The updates the table-level specification applies.
SheetUpdates ==
  {CreateRow(r) : r \in SheetRowIDs}
    \cup {DestroyRow(r) : r \in SheetRowIDs}
    \cup {MoveRow(r, t) : r \in SheetRowIDs, t \in SheetTargets}
    \cup {CreateColumn(k, ty) : k \in SheetColumnIDs, ty \in Types}
    \cup {DestroyColumn(k) : k \in SheetColumnIDs}
    \cup {UpdateColumnType(k, ty) : k \in SheetColumnIDs, ty \in Types}
    \cup {UpdateTextCellValue(r, k, StrVal(v, 0)) :
            r \in SheetRowIDs, k \in SheetColumnIDs, v \in SheetTextLits}
    \cup {UpdateNumberCellValue(r, k, NumVal(v)) :
            r \in SheetRowIDs, k \in SheetColumnIDs, v \in SheetNumberLits}

UpdateKinds ==
  {"CreateRow", "DestroyRow", "MoveRow", "CreateColumn", "DestroyColumn",
   "UpdateColumnType", "UpdateTextCellValue", "UpdateNumberCellValue"}

\* C7 (atomic apply): whatever update is applied to a table that updates
\* have built, if apply returns false the table it leaves (columns, order,
\* row index map, cells) is the table it was given.
AtomicApply ==
  \A u \in SheetUpdates :
    LET res == Apply(u, sheet)
    IN ~res.ok =>
         /\ res.table.columns = sheet.columns
         /\ res.table.order = sheet.order
         /\ res.table.rows = sheet.rows
         /\ res.table.cells = sheet.cells

\* A table with a stored cell on which an update of each of the eight kinds
\* fails, the type change among them because a stored value does not coerce.
AtomicApplyWitness ==
  /\ \E r \in DOMAIN sheet.cells : sheet.cells[r] # <<>>
  /\ \A kind \in UpdateKinds :
       \E u \in SheetUpdates : u.kind = kind /\ ~Apply(u, sheet).ok
  /\ \E u \in SheetUpdates :
       /\ u.kind = "UpdateColumnType"
       /\ MapHas(sheet.columns, u.columnID)
       /\ \E r \in DOMAIN sheet.cells : MapHas(sheet.cells[r], u.columnID)
       /\ ~Apply(u, sheet).ok

\* The fold the transform of an index is claimed to be.
RECURSIVE IndexFold(_, _)
IndexFold(records, idx) ==
  IF records = <<>> THEN idx
  ELSE LET rec == Head(records)
       IN IndexFold(Tail(records),
            IF rec.type = "Insert" /\ idx >= rec.index THEN idx + 1
            ELSE IF rec.type = "Delete" /\ idx > rec.index THEN idx - 1
            ELSE idx)

\* No Delete record meets the index it is folded over.
RECURSIVE NeverDeleted(_, _)
NeverDeleted(records, idx) ==
  IF records = <<>> THEN TRUE
  ELSE LET rec == Head(records)
       IN /\ ~(rec.type = "Delete" /\ idx = rec.index)
          /\ NeverDeleted(Tail(records), IndexFold(<<rec>>, idx))

\* C10: transform of an index no record deletes is the left-to-right fold
\* over the records in the order they were appended, and move(start, end)
\* appends Delete(start) and then Insert(end).
TransformIsFold ==
  /\ (probe.op = "transform" /\ NeverDeleted(probe.before, probe.arg))
       => probe.result = IndexFold(probe.before, probe.arg)
  /\ probe.op = "move"
       => shifts = probe.before \o <<ShiftRecord("Delete", probe.arg),
                                     ShiftRecord("Insert", probe.arg2)>>

\* transform called on a context a move and a deleteAt built, on an index
\* that both the Delete and the Insert records change.
TransformIsFoldWitness ==
  /\ probe.op = "transform"
  /\ NeverDeleted(probe.before, probe.arg)
  /\ Len(probe.before) = 3
  /\ \E i \in 1..3 : probe.before[i].type = "Insert" /\ probe.before[i].index <= probe.arg
  /\ \E i \in 1..3 : probe.before[i].type = "Delete" /\ probe.before[i].index < probe.arg
  /\ probe.result # probe.arg

\* The value transform is documented to return for a deleted index.
Tombstone == -1

\* C11 (tombstoning): transform returns the tombstone exactly when, during
\* the fold, the index meets the index of a Delete record, and a
\* non-negative index otherwise.
TombstoneOnDelete ==
  probe.op = "transform" =>
    IF NeverDeleted(probe.before, probe.arg)
    THEN probe.result >= 0
    ELSE probe.result = Tombstone

\* C12 (a tombstoned move fails): a MoveRow that process decides after an
\* intervening accepted update deleted the row at its target index is
\* rejected, its group joins the failed groups, and the table and the
\* version are left as they were.
TombstonedMoveRejected ==
  \A i \in Decisions :
    (/\ log[i].kind = "MoveRow"
     /\ log[i].outcome # "dropped"
     /\ ~NeverDeleted(log[i].intervening, log[i].target0)) =>
      /\ log[i].outcome = "rejected"
      /\ log[i].groupID \in log[i].failedAfter
      /\ log[i].tableSame
      /\ log[i].version = log[i].at

\* C13 (row-index bounds): a handler in which process decides one message
\* and accepts it, a MoveRow or a DestroyRow, finds the indices of the
\* update inside the row order the update was applied to: the target of a
\* MoveRow and the recorded source index of either are in 0 .. length - 1.
RowIndexBounds ==
  [][(Len(log') = 1 /\ log'[1].outcome = "accepted") =>
       LET u == msgs'[log'[1].uuid].update
           inOrder == 0..(Len(table.order) - 1)
       IN /\ u.kind = "MoveRow" => u.targetIndex \in inOrder /\ u.start \in inOrder
          /\ u.kind = "DestroyRow" => u.index \in inOrder]_vars

\* C14 (row-set invariant): in every state, so after every pass of process,
\* the rows that have a cell map in the server's table are exactly the rows
\* of its row order, and no row ID occurs twice in the row order.
RowSetInv ==
  /\ DOMAIN table.cells = {table.order[i] : i \in 1..Len(table.order)}
  /\ \A i, j \in 1..Len(table.order) : table.order[i] = table.order[j] => i = j

\* The server has just accepted a MoveRow that reordered a table of two rows.
RowSetInvWitness ==
  /\ Len(log) = 1
  /\ log[1].kind = "MoveRow"
  /\ log[1].outcome = "accepted"
  /\ ~log[1].tableSame
  /\ Len(table.order) = 2

\* C15 (canonical values): in every state, so after every pass of process,
\* every value stored in the server's table under a column is one that the
\* coercion of the column's current type is defined on and leaves as it is.
CanonicalValues ==
  \A r \in DOMAIN table.cells :
    \A i \in 1..Len(table.cells[r]) :
      LET type == MapGet(table.columns, table.cells[r][i][1], "undefined")
          value == table.cells[r][i][2]
      IN /\ Coerce(type, value) # Undefined
         /\ Coerce(type, value) = value

\* Every column a row of the table holds a cell under is a column of the table.
ColumnConsistent(T) ==
  \A r \in DOMAIN T.cells :
    \A i \in 1..Len(T.cells[r]) : MapHas(T.columns, T.cells[r][i][1])

\* C16 (column consistency): a table that updates have built holds cells
\* only under columns it has, whatever update is applied to it next leaves
\* such a table, and after a DestroyColumn that apply accepts no row holds a
\* cell under the destroyed column.
ColumnConsistency ==
  /\ ColumnConsistent(sheet)
  /\ \A u \in SheetUpdates :
       LET res == Apply(u, sheet)
       IN /\ ColumnConsistent(res.table)
          /\ (u.kind = "DestroyColumn" /\ res.ok) =>
               \A r \in DOMAIN res.table.cells : ~MapHas(res.table.cells[r], u.columnID)

\* A table of two columns in which two rows hold a cell under the same
\* column and one of them a cell under the other column too: destroying
\* the shared column has cells to remove in both rows and cells to keep.
ColumnConsistencyWitness ==
  \E k \in SheetColumnIDs :
    /\ Apply(DestroyColumn(k), sheet).ok
    /\ Len(sheet.columns) = 2
    /\ \A r \in SheetRowIDs : r \in DOMAIN sheet.cells /\ MapHas(sheet.cells[r], k)
    /\ \E r \in DOMAIN sheet.cells : Len(sheet.cells[r]) = 2

\* C17 (effect of a type change): whenever apply accepts an
\* UpdateColumnType(c, t) on a table that updates have built, the table it
\* leaves has column c of type t (and serializes it so), and every value
\* that was stored under c is replaced by its coercion to t.
TypeChangeEffect ==
  \A u \in SheetUpdates :
    LET res == Apply(u, sheet)
    IN (u.kind = "UpdateColumnType" /\ res.ok) =>
         /\ MapGet(res.table.columns, u.columnID, "undefined") = u.columnType
         /\ \E i \in 1..Len(res.table.columns) :
              Serialize(res.table).columns[i] =
                [id |-> u.columnID, type |-> TypeToString(u.columnType)]
         /\ \A r \in DOMAIN sheet.cells :
              MapHas(sheet.cells[r], u.columnID) =>
                MapGet(res.table.cells[r], u.columnID, Undefined) =
                  Coerce(u.columnType, MapGet(sheet.cells[r], u.columnID, Undefined))

\* C18 (precondition of a type change): on a table that updates have built,
\* apply accepts an UpdateColumnType(c, t) of an existing column c exactly
\* when every value stored under c coerces to t; a row with no cell under c
\* does not block it and has no cell under c afterwards.
TypeChangePrecondition ==
  \A u \in SheetUpdates :
    LET res == Apply(u, sheet)
        stored == {r \in DOMAIN sheet.cells : MapHas(sheet.cells[r], u.columnID)}
    IN (u.kind = "UpdateColumnType" /\ MapHas(sheet.columns, u.columnID)) =>
         /\ res.ok <=>
              \A r \in stored :
                Coerce(u.columnType, MapGet(sheet.cells[r], u.columnID, Undefined)) # Undefined
         /\ res.ok =>
              \A r \in DOMAIN sheet.cells \ stored : ~MapHas(res.table.cells[r], u.columnID)

\* The type a cell update of the given kind writes to.
CellTypeOf(kind) == IF kind = "UpdateTextCellValue" THEN TypeText ELSE TypeNumber

\* Table T1 is table T0 with the cell of row r under column k set to v and
\* nothing else changed.
OnlyCellSet(T0, T1, r, k, v) ==
  /\ T1.columns = T0.columns
  /\ T1.order = T0.order
  /\ T1.rows = T0.rows
  /\ DOMAIN T1.cells = DOMAIN T0.cells
  /\ \A r2 \in DOMAIN T0.cells \ {r} : T1.cells[r2] = T0.cells[r2]
  /\ MapGet(T1.cells[r], k, Undefined) = v
  /\ \A k2 \in SheetColumnIDs \ {k} :
       /\ MapHas(T1.cells[r], k2) <=> MapHas(T0.cells[r], k2)
       /\ MapGet(T1.cells[r], k2, Undefined) = MapGet(T0.cells[r], k2, Undefined)
  /\ \A i \in 1..Len(T1.cells[r]) : T1.cells[r][i][1] \in SheetColumnIDs
  /\ \A i, j \in 1..Len(T1.cells[r]) : T1.cells[r][i][1] = T1.cells[r][j][1] => i = j

\* C19 (cell update precondition): on a table that updates have built,
\* apply accepts an UpdateTextCellValue(r, c, v) exactly when c is a column
\* of type Text and r is in the row order, an UpdateNumberCellValue(r, c, v)
\* exactly when c is a column of type Number and r is in the row order; an
\* accepted one sets the cell of r under c to v and changes nothing else.
CellUpdateContract ==
  \A u \in SheetUpdates :
    LET res == Apply(u, sheet)
    IN u.kind \in {"UpdateTextCellValue", "UpdateNumberCellValue"} =>
         /\ res.ok <=>
              /\ MapHas(sheet.columns, u.columnID)
              /\ MapGet(sheet.columns, u.columnID, "undefined") = CellTypeOf(u.kind)
              /\ \E i \in 1..Len(sheet.order) : sheet.order[i] = u.rowID
         /\ res.ok => OnlyCellSet(sheet, res.table, u.rowID, u.columnID, u.cellValue)

\* A table with a Text and a Number column and a row holding a cell under
\* both, the other row missing: the text write to the Text column is
\* accepted over the stored value, the text write to the Number column, the
\* number write to the Text column and the writes to the missing row are not.
CellUpdateContractWitness ==
  \E r, r2 \in SheetRowIDs, k1, k2 \in SheetColumnIDs :
    /\ r \in DOMAIN sheet.rows /\ r2 \notin DOMAIN sheet.rows
    /\ MapGet(sheet.columns, k1, "undefined") = TypeText
    /\ MapGet(sheet.columns, k2, "undefined") = TypeNumber
    /\ MapGet(sheet.cells[r], k1, Undefined) = StrVal("0", 0)
    /\ MapHas(sheet.cells[r], k2)
    /\ Apply(UpdateTextCellValue(r, k1, StrVal("foo", 0)), sheet).ok
    /\ Apply(UpdateNumberCellValue(r, k2, NumVal("0")), sheet).ok
    /\ ~Apply(UpdateTextCellValue(r, k2, StrVal("foo", 0)), sheet).ok
    /\ ~Apply(UpdateNumberCellValue(r, k1, NumVal("0")), sheet).ok
    /\ ~Apply(UpdateTextCellValue(r2, k1, StrVal("foo", 0)), sheet).ok

\* A step in which a client that is offline issues an edit: a message is
\* created and the server is not called.
OfflineEditOf(c) ==
  /\ nextUUID' = nextUUID + 1
  /\ ~online[c]
  /\ arrivals' = <<>>
  /\ outbox'[c] # outbox[c]

\* C20 (offline edits are only queued): a step that creates a message either
\* hands it to the server, for a client that is online, or is the edit of one
\* offline client: then the message, at the client's version and group, is
\* appended to the tail of that client's outbox and nothing else changes:
\* no mirror, client version or group, and none of the server's table,
\* pending queue, history, version and failed groups.  A client's mirror
\* changes only in a step in which the server syncs the client on connecting
\* it or tells it of an acceptance.
OfflineEditOnlyQueues ==
  /\ [][nextUUID' # nextUUID =>
          \/ /\ arrivals' = <<nextUUID>>
             /\ \E c \in Clients : online[c] /\ log'[1].groupID = groupID[c]
          \/ \E c \in Clients : OfflineEditOf(c)]_vars
  /\ [][\A c \in Clients :
          OfflineEditOf(c) =>
            /\ outbox' = FunSet(outbox, c, Append(outbox[c], nextUUID))
            /\ DOMAIN msgs' = DOMAIN msgs \cup {nextUUID}
            /\ \A u \in DOMAIN msgs : msgs'[u] = msgs[u]
            /\ msgs'[nextUUID].UUID = nextUUID
            /\ msgs'[nextUUID].version = cVersion[c]
            /\ msgs'[nextUUID].groupID = groupID[c]
            /\ log' = <<>>
            /\ UNCHANGED <<cTable, cVersion, groupID, online, nextGroup>>
            /\ UNCHANGED <<table, pending, history, version, failed, clients>>]_vars
  /\ [][\A c \in Clients :
          cTable'[c] # cTable[c] =>
            \/ /\ \A i \in 1..Len(clients) : clients[i] # c
               /\ \E i \in 1..Len(clients') : clients'[i] = c
            \/ \E i \in 1..Len(log') :
                 \E j \in 1..Len(log'[i].told[c]) : log'[i].told[c][j][1] = "accepted"]_vars

\* An offline client has issued two edits since the server accepted a
\* message: both wait in its outbox at the client's version and group.
OfflineEditOnlyQueuesWitness ==
  \E c \in Clients :
    /\ ~online[c]
    /\ version = 1
    /\ cTable[c] # NewTable
    /\ Len(outbox[c]) = 2
    /\ \A i \in 1..2 :
         /\ msgs[outbox[c][i]].version = cVersion[c]
         /\ msgs[outbox[c][i]].groupID = groupID[c]
    /\ outbox[c][2] = nextUUID - 1
    /\ log = <<>>

\* The clients of the connected set.
ConnectedSet(cs) == {cs[i] : i \in 1..Len(cs)}

\* C21 (comeOnline drains the outbox): a client that is online is in the
\* connected set with an empty outbox.  In the step that brings an offline
\* client online, the messages of its outbox arrive at the server once each,
\* in the order they were issued, and process decides every one of them with
\* the client already connected; afterwards its outbox is empty.  An outbox
\* changes in no other step than that one and the client's own offline
\* edit, so going offline loses no message.
ComeOnlineDrains ==
  /\ [](\A c \in Clients :
          online[c] => outbox[c] = <<>> /\ c \in ConnectedSet(clients))
  /\ [](\A c \in Clients :
          \A i, j \in 1..Len(outbox[c]) : i < j => outbox[c][i] < outbox[c][j])
  /\ [][\A c \in Clients :
          (~online[c] /\ online'[c]) =>
            /\ arrivals' = outbox[c]
            /\ Len(log') = Len(arrivals')
            /\ \A i \in 1..Len(log') :
                 /\ log'[i].uuid = arrivals'[i]
                 /\ c \in ConnectedSet(log'[i].connected)
            /\ pending' = <<>>
            /\ cVersion'[c] = version']_vars
  /\ [][\A c \in Clients :
          outbox'[c] # outbox[c] =>
            \/ ~online[c] /\ online'[c]
            \/ /\ ~online[c] /\ ~online'[c]
               /\ outbox'[c] = Append(outbox[c], nextUUID)
               /\ nextUUID' = nextUUID + 1]_vars

\* A client has just come online with two edits in its outbox: both arrived
\* in the order of issue and were accepted, the client is connected with an
\* empty outbox.
ComeOnlineDrainsWitness ==
  \E c \in Clients :
    /\ online[c]
    /\ Len(arrivals) = 2
    /\ arrivals[1] < arrivals[2]
    /\ Len(log) = 2
    /\ \A i \in 1..2 : log[i].outcome = "accepted" /\ log[i].told[c] # <<>>
    /\ outbox[c] = <<>>
    /\ c \in ConnectedSet(clients)

\* The group IDs in use: those of the clients, of the messages and of the
\* failed groups.
GroupsInUse ==
  {groupID[c] : c \in Clients} \cup {msgs[u].groupID : u \in DOMAIN msgs} \cup failed

\* C22 (sync): in any state, sync(T, v) on a client, for a table T and a
\* version v behind, at or ahead of the client's, sets the mirror to T and the
\* version to v, gives the client a group ID that is in use nowhere exactly
\* when v is greater than the client's version and leaves the group ID alone
\* otherwise, and leaves the other clients alone; a second sync(T, v) right
\* after changes neither mirror, version nor group ID.
SyncContract ==
  \A c \in Clients, v \in 0..(MaxMsgs + 1), T \in {TableCopy(table), NewTable} :
    LET w1 == Sync(World, c, T, v)
        w2 == Sync(w1, c, T, v)
    IN /\ w1.cTable[c] = T
       /\ w1.cVersion[c] = v
       /\ (v > cVersion[c]) => w1.groupID[c] \notin GroupsInUse
       /\ ~(v > cVersion[c]) => w1.groupID[c] = groupID[c]
       /\ \A c2 \in Clients \ {c} :
            /\ w1.cTable[c2] = cTable[c2]
            /\ w1.cVersion[c2] = cVersion[c2]
            /\ w1.groupID[c2] = groupID[c2]
       /\ w2.cTable = w1.cTable
       /\ w2.cVersion = w1.cVersion
       /\ w2.groupID = w1.groupID

\* An offline client is behind the server and its mirror differs from the
\* server's table: the sync of its next connect is one to a newer version
\* and rotates its group.
SyncContractWitness ==
  \E c \in Clients :
    /\ ~online[c]
    /\ cVersion[c] < version
    /\ cTable[c] # table
    /\ outbox[c] # <<>>
    /\ Sync(World, c, TableCopy(table), version).groupID[c] # groupID[c]

\* C23 (accepted): in any state, accepted(m) on a client, for any message m
\* alive, throws 'unexpected version' and leaves every mirror, client
\* version and group ID as it was when m.version is not the client's
\* version plus one; otherwise it throws nothing, the client's mirror is the
\* mirror with m.update applied, its version is m.version, its group ID is
\* one in use nowhere, and the other clients are left alone.  An edit the
\* server accepts in one step reaches every connected client this way.
AcceptedContract ==
  /\ [](\A c \in Clients, uuid \in DOMAIN msgs :
          LET w1 == Accepted(World, c, uuid)
          IN IF msgs[uuid].version # cVersion[c] + 1
             THEN /\ w1.threw = "unexpected version"
                  /\ w1.cTable = cTable
                  /\ w1.cVersion = cVersion
                  /\ w1.groupID = groupID
                  /\ w1.msgs = msgs
             ELSE /\ w1.threw = "none"
                  /\ w1.cTable[c] = Apply(msgs[uuid].update, cTable[c]).table
                  /\ w1.cVersion[c] = msgs[uuid].version
                  /\ w1.groupID[c] \notin GroupsInUse
                  /\ \A c2 \in Clients \ {c} :
                       /\ w1.cTable[c2] = cTable[c2]
                       /\ w1.cVersion[c2] = cVersion[c2]
                       /\ w1.groupID[c2] = groupID[c2])
  /\ [][(nextUUID' # nextUUID /\ Len(log') = 1 /\ log'[1].outcome = "accepted") =>
          \A c \in ConnectedSet(clients) :
            /\ log'[1].told[c] = <<<<"accepted", nextUUID>>>>
            /\ cTable'[c] = Apply(msgs'[nextUUID].update, cTable[c]).table
            /\ cVersion'[c] = cVersion[c] + 1
            /\ cVersion'[c] = msgs'[nextUUID].version
            /\ groupID'[c] \notin GroupsInUse]_vars

\* The server has just accepted an edit and told a connected client, whose
\* mirror changed; a client that is offline is one version behind that
\* message, so both branches of accepted have a message to be called with.
AcceptedContractWitness ==
  \E c, c2 \in Clients :
    /\ Len(log) = 1
    /\ log[1].outcome = "accepted"
    /\ log[1].told[c] # <<>>
    /\ ~log[1].mirrorsSame
    /\ ~online[c2]
    /\ \E uuid \in DOMAIN msgs :
         /\ msgs[uuid].version = cVersion[c2] + 1
         /\ Accepted(World, c2, uuid).cTable[c2] # cTable[c2]
    /\ \E uuid \in DOMAIN msgs : msgs[uuid].version # cVersion[c] + 1

\* Process told client c of an acceptance in the step.
ToldAccepted(c) ==
  \E i \in 1..Len(log') :
    \E j \in 1..Len(log'[i].told[c]) : log'[i].told[c][j][1] = "accepted"

BatchRecovery ==
  [][\A c \in Clients :
       (/\ ~online[c] /\ online'[c]
        /\ \E i \in 1..Len(log') :
             log'[i].outcome = "rejected" /\ log'[i].groupID = groupID[c]) =>
         /\ groupID'[c] # groupID[c]
         /\ groupID'[c] \notin failed']_vars

\* The table after the updates of the messages items[i], items[i + 1], ...
\* are tried on T in order, one that apply refuses being skipped.
RECURSIVE BestEffort(_, _, _)
BestEffort(items, i, T) ==
  IF i > Len(items) THEN T
  ELSE LET res == Apply(msgs[items[i]].update, T)
       IN BestEffort(items, i + 1, IF res.ok THEN res.table ELSE T)

\* An update without the indices apply records on the update object.
AsIssued(u) == [u EXCEPT !.index = -1, !.start = -1]

\* What a handler leaves of the server and of the clients, the indices
\* recorded on update objects aside.
Outcome(w) ==
  [table |-> w.table, history |-> w.history, pending |-> w.pending,
   failed |-> w.failed, clients |-> w.clients, version |-> w.version,
   cTable |-> w.cTable, cVersion |-> w.cVersion, groupID |-> w.groupID,
   outbox |-> w.outbox, online |-> w.online, threw |-> w.threw,
   decisions |-> [i \in 1..Len(w.log) |-> <<w.log[i].uuid, w.log[i].outcome>>]]

\* C26 (getData): getData of an online client returns the serialization of
\* its mirror; getData of an offline client returns the serialization of a
\* copy of the mirror on which the updates of the outbox were tried in
\* outbox order, the refused ones skipped.  The call leaves every message as
\* it was issued (version, group, UUID and update; only indices recorded on
\* the update objects of the outbox may be written), a second call returns
\* the same string, and the client's comeOnline after the call leaves the
\* server and the clients as comeOnline without the call does.
GetDataContract ==
  \A c \in Clients :
    LET g == GetDataBody(World, c)
        after == [World EXCEPT !.msgs = g.msgs]
    IN /\ online[c] => g.data = Serialize(cTable[c]) /\ g.msgs = msgs
       /\ ~online[c] =>
            g.data = Serialize(BestEffort(outbox[c], 1, TableCopy(cTable[c])))
       /\ DOMAIN g.msgs = DOMAIN msgs
       /\ \A u \in DOMAIN msgs :
            /\ g.msgs[u].version = msgs[u].version
            /\ g.msgs[u].groupID = msgs[u].groupID
            /\ g.msgs[u].UUID = msgs[u].UUID
            /\ AsIssued(g.msgs[u].update) = AsIssued(msgs[u].update)
            /\ (\A i \in 1..Len(outbox[c]) : outbox[c][i] # u) => g.msgs[u] = msgs[u]
       /\ (~online[c] /\ outbox[c] # <<>>) =>
            /\ GetDataBody(after, c).data = g.data
            /\ Outcome(ComeOnlineBody(after, c, delay)) =
                 Outcome(ComeOnlineBody(World, c, delay))

\* An offline client holds two edits in its outbox of which its view
\* refuses the first and applies the second: what getData returns is not
\* the serialization of the mirror, and the call records an index on an
\* update object.
GetDataContractWitness ==
  \E c \in Clients :
    /\ ~online[c]
    /\ Len(outbox[c]) = 2
    /\ ~Apply(msgs[outbox[c][1]].update, cTable[c]).ok
    /\ GetDataBody(World, c).data # Serialize(cTable[c])
    /\ GetDataBody(World, c).msgs # msgs
    /\ version >= 1

(***************************************************************************)
(* One user: of the clients constructed, only one calls a method.          *)
(***************************************************************************)
Solo == "A"

NextSolo ==
  \/ \E r \in RowIDs : ClientCreateRow(Solo, r)
  \/ \E r \in RowIDs : ClientDestroyRow(Solo, r)
  \/ \E r \in RowIDs, t \in TargetIndices : ClientMoveRow(Solo, r, t)
  \/ \E k \in ColumnIDs, ty \in Types : ClientCreateColumn(Solo, k, ty)
  \/ \E k \in ColumnIDs : ClientDestroyColumn(Solo, k)
  \/ \E k \in ColumnIDs, ty \in Types : ClientUpdateColumnType(Solo, k, ty)
  \/ \E r \in CellRowIDs, k \in ColumnIDs, v \in TextLits :
       ClientUpdateTextCellValue(Solo, r, k, v)
  \/ \E r \in CellRowIDs, k \in ColumnIDs, v \in NumberLits :
       ClientUpdateNumberCellValue(Solo, r, k, v)
  \/ ComeOnline(Solo)
  \/ GoOffline(Solo)
  \/ GetData(Solo)

SpecSolo == Init /\ [][NextSolo]_vars

\* The world after client c, online, issues the updates of the messages
\* items[i], items[i + 1], ... one after the other as new messages.
RECURSIVE IssuedOnline(_, _, _, _)
IssuedOnline(w, c, items, i) ==
  IF i > Len(items) THEN w
  ELSE IssuedOnline(Issue(w, c, AsIssued(msgs[items[i]].update), nextUUID + i - 1, 0),
                    c, items, i + 1)

\* The world had the user not gone offline: the user is connected with an
\* empty outbox.
StayedOnline(c) ==
  ComeOnlineBody([World EXCEPT !.outbox = FunSet(outbox, c, <<>>)], c, 0)

\* C27 (offline/online equivalence for one user): whenever the only user is
\* offline with edits in its outbox, coming online leaves the server with
\* the table and the version, and the user with the mirror, the version and
\* the data, that issuing the same edits online one by one leaves; and the
\* user's data is then the server's.
OfflineOnlineEquivalence ==
  ~online[Solo] =>
    LET off == ComeOnlineBody(World, Solo, 0)
        on == IssuedOnline(StayedOnline(Solo), Solo, outbox[Solo], 1)
    IN /\ off.threw = "none" /\ on.threw = "none"
       /\ off.table = on.table
       /\ off.version = on.version
       /\ off.cTable[Solo] = on.cTable[Solo]
       /\ off.cVersion[Solo] = on.cVersion[Solo]
       /\ GetDataBody(off, Solo).data = GetDataBody(on, Solo).data
       /\ GetDataBody(off, Solo).data = Serialize(off.table)
       /\ [i \in 1..Len(off.log) |-> off.log[i].outcome] =
            [i \in 1..Len(on.log) |-> on.log[i].outcome]

\* The user went offline after an accepted edit and holds two edits in
\* its outbox: coming online accepts the first and rejects the
\* second.
OfflineOnlineEquivalenceWitness ==
  /\ ~online[Solo]
  /\ Len(outbox[Solo]) = 2
  /\ version = 1
  /\ LET off == ComeOnlineBody(World, Solo, 0)
     IN /\ off.version = 2
        /\ off.table # table
        /\ Len(off.log) = 2
        /\ off.log[2].outcome = "rejected"

(***************************************************************************)
(* Conflicting writes: the clients write to a text cell that the first     *)
(* client has created and filled while both were online.                   *)
(***************************************************************************)
\* Writes a run may issue to the cell after it was filled.
MaxWrites == 2

\* The edits the first client issues before the run is observed.
SeedUpdates ==
  <<CreateRow("r1"), CreateColumn("c1", TypeText),
    UpdateTextCellValue("r1", "c1", StrVal("foo", 0))>>

\* The values written to the cell afterwards.
ConflictLits == {"bar", "baz"}

\* new Server(), then new Client(server) for each client.
BaseWorld ==
  [table |-> NewTable, history |-> EmptyFun, pending |-> <<>>, failed |-> {},
   clients |-> ClientOrder, version |-> 0, msgs |-> EmptyFun,
   cTable |-> [c \in Clients |-> TableCopy(NewTable)],
   outbox |-> [c \in Clients |-> <<>>],
   groupID |-> [c \in Clients |-> CHOOSE i \in 1..Len(ClientOrder) : ClientOrder[i] = c],
   cVersion |-> [c \in Clients |-> 0],
   online |-> [c \in Clients |-> TRUE],
   nextGroup |-> Len(ClientOrder) + 1, arrivals |-> <<>>, log |-> <<>>,
   inbox |-> [c \in Clients |-> <<>>], threw |-> "none"]

\* The world after the first client has issued SeedUpdates[i], ... online.
RECURSIVE SeedFrom(_, _)
SeedFrom(w, i) ==
  IF i > Len(SeedUpdates) THEN w
  ELSE SeedFrom(Issue(w, ClientOrder[1], SeedUpdates[i], i, 0), i + 1)

InitSeeded ==
  LET w == SeedFrom(BaseWorld, 1)
  IN /\ delay = 0
     /\ timer = FALSE
     /\ table = w.table
     /\ history = w.history
     /\ pending = w.pending
     /\ failed = w.failed
     /\ clients = w.clients
     /\ version = w.version
     /\ msgs = [u \in Live(w) |-> w.msgs[u]]
     /\ cTable = w.cTable
     /\ outbox = w.outbox
     /\ groupID = w.groupID
     /\ cVersion = w.cVersion
     /\ online = w.online
     /\ nextUUID = Len(SeedUpdates) + 1
     /\ nextGroup = w.nextGroup
     /\ error = w.threw
     /\ arrivals = <<>>
     /\ log = <<>>
     /\ AuxInit

\* client.updateTextCellValue on the seeded cell.
ConflictWrite(c, lit) ==
  /\ nextUUID <= Len(SeedUpdates) + MaxWrites
  /\ Edit(c, UpdateTextCellValue("r1", "c1", StrVal(lit, 0)))

NextSeeded ==
  \/ \E c \in Clients, lit \in ConflictLits : ConflictWrite(c, lit)
  \/ \E c \in Clients : ComeOnline(c)
  \/ \E c \in Clients : GoOffline(c)
  \/ \E c \in Clients : GetData(c)

SpecSeeded == InitSeeded /\ [][NextSeeded]_vars

\* Both clients are offline, each with one write in its outbox, the two
\* writes being text writes of different values to the same stored cell,
\* issued at the same version.
ConflictingWrites(first, second) ==
  /\ first # second
  /\ ~online[first] /\ ~online[second]
  /\ Len(outbox[first]) = 1 /\ Len(outbox[second]) = 1
  /\ LET mf == msgs[outbox[first][1]]
         ms == msgs[outbox[second][1]]
     IN /\ mf.version = ms.version
        /\ mf.update.kind = "UpdateTextCellValue"
        /\ ms.update.kind = "UpdateTextCellValue"
        /\ mf.update.rowID = ms.update.rowID
        /\ mf.update.columnID = ms.update.columnID
        /\ mf.update.cellValue # ms.update.cellValue
        /\ ms.update.rowID \in DOMAIN table.cells
        /\ MapHas(table.cells[ms.update.rowID], ms.update.columnID)

\* C28 (conflicts resolve by arrival order): when two offline clients hold
\* conflicting writes to a stored text cell and come online one after the
\* other, the server accepts both writes, and the cell holds the value of
\* the client that came online second on the server and in both mirrors,
\* whichever client issued its write first; both clients' data is then the
\* server's.
LastArrivalWins ==
  \A first, second \in Clients :
    ConflictingWrites(first, second) =>
      LET u == msgs[outbox[second][1]].update
          w1 == ComeOnlineBody(World, first, 0)
          w2 == ComeOnlineBody(w1, second, 0)
      IN /\ w2.threw = "none"
         /\ Len(w2.log) = 2
         /\ w2.log[1].outcome = "accepted" /\ w2.log[1].uuid = outbox[first][1]
         /\ w2.log[2].outcome = "accepted" /\ w2.log[2].uuid = outbox[second][1]
         /\ MapGet(w2.table.cells[u.rowID], u.columnID, Undefined) = u.cellValue
         /\ \A c \in {first, second} :
              /\ MapGet(w2.cTable[c].cells[u.rowID], u.columnID, Undefined) = u.cellValue
              /\ GetDataBody(w2, c).data = Serialize(w2.table)

\* Both clients hold conflicting writes to the stored cell; the second
\* client constructed issued its write first.
LastArrivalWinsWitness ==
  /\ ConflictingWrites(ClientOrder[1], ClientOrder[2])
  /\ outbox[ClientOrder[2]][1] < outbox[ClientOrder[1]][1]
  /\ MapGet(table.cells["r1"], "c1", Undefined) = StrVal("foo", 0)

\* C29 (disconnected): disconnected(c) takes c out of the connected set,
\* keeps the order of the others and changes nothing else of the server.
\* In a step that starts and ends with c outside the connected set, and
\* for every message process decides while c is outside it, c is told
\* nothing and its mirror and version stay as they are.  connected(c) syncs
\* c to a copy of the server's table and to the server's version, and the
\* step in which c connects leaves c with the server's table and version.
DisconnectedContract ==
  /\ [](\A c \in Clients :
          LET w1 == Disconnected(World, c)
              w2 == Connected(World, c)
          IN /\ w1.clients = SelectSeq(clients, LAMBDA x : x # c)
             /\ w1.table = table /\ w1.history = history /\ w1.pending = pending
             /\ w1.failed = failed /\ w1.version = version
             /\ w1.cTable = cTable /\ w1.cVersion = cVersion /\ w1.groupID = groupID
             /\ c \in ConnectedSet(w2.clients)
             /\ w2.cTable[c] = TableCopy(table)
             /\ w2.cVersion[c] = version)
  /\ [](\A c \in Clients : online[c] <=> c \in ConnectedSet(clients))
  /\ [][\A c \in Clients :
          /\ (online[c] /\ ~online'[c]) =>
               /\ clients' = SelectSeq(clients, LAMBDA x : x # c)
               /\ UNCHANGED <<table, history, pending, failed, version>>
          /\ \A i \in 1..Len(log') :
               c \notin ConnectedSet(log'[i].connected) => log'[i].told[c] = <<>>
          /\ (c \notin ConnectedSet(clients) /\ c \notin ConnectedSet(clients')) =>
               /\ cTable'[c] = cTable[c]
               /\ cVersion'[c] = cVersion[c]
               /\ \A i \in 1..Len(log') : log'[i].told[c] = <<>>
          /\ (c \notin ConnectedSet(clients) /\ c \in ConnectedSet(clients')) =>
               /\ cTable'[c] = table'
               /\ cVersion'[c] = version']_vars

\* The server has just accepted an edit and told a connected client while
\* another client is outside the connected set: that client was told
\* nothing and its mirror and version are behind the server's.
DisconnectedContractWitness ==
  \E c, c2 \in Clients :
    /\ c \notin ConnectedSet(clients)
    /\ c2 \in ConnectedSet(clients)
    /\ Len(log) = 1
    /\ log[1].outcome = "accepted"
    /\ log[1].told[c] = <<>>
    /\ log[1].told[c2] # <<>>
    /\ cVersion[c] < version
    /\ cTable[c] # table

\* C30 (connected clients are version-synced): between the handlers, every
\* client of the connected set is at the server's version, and the error
\* 'unexpected version' has not been thrown; every acceptance process
\* decides is told to every client connected at that moment, once.
ConnectedSynced ==
  /\ [](\A c \in ConnectedSet(clients) : cVersion[c] = version)
  /\ [](error = "none")
  /\ [](\A i \in 1..Len(log) :
          log[i].outcome = "accepted" =>
            \A c \in ConnectedSet(log[i].connected) :
              log[i].told[c] = <<<<"accepted", log[i].uuid>>>>)

\* A client that was behind the server has just come online with an edit
\* that the server accepted and told to it and to the other client, which
\* is connected too: both are at the server's version.
ConnectedSyncedWitness ==
  \E c, c2 \in Clients :
    /\ c # c2
    /\ {c, c2} \subseteq ConnectedSet(clients)
    /\ Len(arrivals) = 1
    /\ Len(log) = 1
    /\ log[1].outcome = "accepted"
    /\ log[1].base < log[1].at
    /\ log[1].told[c] # <<>> /\ log[1].told[c2] # <<>>
    /\ clients[Len(clients)] = c
    /\ cVersion[c] = version /\ cVersion[c2] = version
    /\ version = 2

\* The acceptances client c was told of while process decided the messages
\* of the log, in the order it was told.
RECURSIVE ToldOf(_, _, _)
ToldOf(entries, i, c) ==
  IF i > Len(entries) THEN <<>>
  ELSE SelectSeq(entries[i].told[c], LAMBDA t : t[1] = "accepted")
         \o ToldOf(entries, i + 1, c)

\* C31 (ordered, at-most-once broadcast): a message process accepts is told
\* once to every client connected when it is accepted and to no other
\* client, and a message it does not accept is told to nobody as accepted.
\* What a client is told in one handler is in increasing version order, and
\* every acceptance of a handler has a version above the versions accepted
\* by the handlers before it.
OrderedBroadcast ==
  /\ [](\A i \in 1..Len(log), c \in Clients :
          SelectSeq(log[i].told[c], LAMBDA t : t[1] = "accepted") =
            IF log[i].outcome = "accepted" /\ c \in ConnectedSet(log[i].connected)
            THEN <<<<"accepted", log[i].uuid>>>>
            ELSE <<>>)
  /\ [](\A c \in Clients :
          LET told == ToldOf(log, 1, c)
          IN \A i, j \in 1..Len(told) :
               i < j => msgs[told[i][2]].version < msgs[told[j][2]].version)
  /\ [](\A i \in 1..Len(log) :
          log[i].outcome = "accepted" =>
            /\ log[i].version = log[i].at + 1
            /\ msgs[log[i].uuid].version = log[i].version
            /\ history[log[i].version] = log[i].uuid)
  /\ [][\A i \in 1..Len(log') :
          log'[i].outcome = "accepted" => log'[i].version > version]_vars

\* A client has come online with two edits, both accepted in one handler
\* and told, in version order, to it and to the client that stayed online.
OrderedBroadcastWitness ==
  \E c, c2 \in Clients :
    /\ c # c2
    /\ Len(log) = 2
    /\ log[1].outcome = "accepted" /\ log[2].outcome = "accepted"
    /\ Len(ToldOf(log, 1, c)) = 2
    /\ Len(ToldOf(log, 1, c2)) = 2
    /\ ToldOf(log, 1, c) = <<<<"accepted", log[1].uuid>>, <<"accepted", log[2].uuid>>>>
    /\ version = 3

\* C32 (delay only batches): with a delayed server, a message that waits
\* in the pending queue has a tick scheduled that will dequeue and decide
\* it, however many ticks have fired before it arrived.
PendingHasTick == (pending # <<>>) => timer

\* The messages of the history.
Materialized == {history[v] : v \in DOMAIN history}

\* C33 (receive runs to completion): with an immediate server every handler
\* ends with the pending queue empty and without an error, and the messages
\* that arrived in it were decided one by one in arrival order, each with
\* exactly one outcome: accepted and in the history at the next version,
\* rejected with its group added to the failed groups, or dropped because
\* its group had failed, with nothing changed and nobody told.  A message
\* arrives once: what arrives is new or comes out of an outbox, and is in
\* the history of no earlier handler.
ReceiveCompletes ==
  /\ [](pending = <<>> /\ error = "none")
  /\ [](/\ Len(log) = Len(arrivals)
        /\ \A i, j \in 1..Len(arrivals) : arrivals[i] = arrivals[j] => i = j
        /\ \A i \in 1..Len(log) :
             /\ log[i].uuid = arrivals[i]
             /\ log[i].outcome \in {"accepted", "rejected", "dropped"}
             /\ log[i].outcome = "accepted" =>
                  /\ log[i].groupID \notin log[i].failedBefore
                  /\ log[i].failedAfter = log[i].failedBefore
                  /\ ~log[i].historySame
                  /\ log[i].version = log[i].at + 1
                  /\ history[log[i].version] = log[i].uuid
             /\ log[i].outcome = "rejected" =>
                  /\ log[i].groupID \notin log[i].failedBefore
                  /\ log[i].failedAfter = log[i].failedBefore \cup {log[i].groupID}
                  /\ log[i].historySame /\ log[i].tableSame
                  /\ log[i].version = log[i].at
                  /\ log[i].uuid \notin Materialized
             /\ log[i].outcome = "dropped" =>
                  /\ log[i].groupID \in log[i].failedBefore
                  /\ log[i].failedAfter = log[i].failedBefore
                  /\ log[i].historySame /\ log[i].tableSame /\ log[i].mirrorsSame
                  /\ log[i].version = log[i].at
                  /\ log[i].uuid \notin Materialized
                  /\ \A c \in Clients : log[i].told[c] = <<>>)
  /\ [][\A i \in 1..Len(arrivals') :
          /\ arrivals'[i] \notin Materialized
          /\ \/ arrivals' = <<nextUUID>> /\ nextUUID' = nextUUID + 1
             \/ \E c \in Clients : arrivals' = outbox[c] /\ outbox'[c] = <<>>]_vars

\* Three messages arrived in one handler: the first was accepted, the
\* second rejected and the third dropped.
ReceiveCompletesWitness ==
  /\ Len(arrivals) = 3
  /\ Len(log) = 3
  /\ log[1].outcome = "accepted"
  /\ log[2].outcome = "rejected"
  /\ log[3].outcome = "dropped"
  /\ pending = <<>>

\* C34 (MoveRow effect): whenever MoveRow(r, t).apply returns true, r is at
\* position t of the row order, the other rows keep their relative order,
\* the set of rows, the columns and the cells are unchanged, and the move
\* that shift records is (position of r before the move, t).
MoveRowEffect ==
  \A u \in {x \in SheetUpdates : x.kind = "MoveRow"} :
    LET res == Apply(u, sheet)
        others(order) == SelectSeq(order, LAMBDA x : x # u.rowID)
    IN res.ok =>
         /\ (u.targetIndex + 1) \in DOMAIN res.table.order
         /\ res.table.order[u.targetIndex + 1] = u.rowID
         /\ others(res.table.order) = others(sheet.order)
         /\ DOMAIN res.table.rows = DOMAIN sheet.rows
         /\ res.table.columns = sheet.columns
         /\ res.table.cells = sheet.cells
         /\ Shift(res.update, NewShiftContext).shifts =
              Move(NewShiftContext, sheet.rows[u.rowID], u.targetIndex)

\* The server's table at version v: the updates of the history applied in
\* version order to an empty table.
RECURSIVE TableAt(_)
TableAt(v) ==
  IF v = 0 THEN NewTable
  ELSE Apply(msgs[history[v]].update, TableAt(v - 1)).table

\* C35 (stable history): the history holds one message for every version up
\* to the server's, each carrying its version, and its updates replayed in
\* order give the server's table.  The index a DestroyRow of the history
\* carries and the start a MoveRow carries are the position the row had in
\* the server's table one version earlier, whatever the clients' accepted
\* and getData calls applied the update to.  No handler overwrites or
\* removes an entry of the history or changes the message it holds.
HistoryStable ==
  /\ [](/\ DOMAIN history = 1..version
        /\ TableAt(version) = table
        /\ \A v \in DOMAIN history :
             LET m == msgs[history[v]]
                 T == TableAt(v - 1)
             IN /\ m.version = v
                /\ m.update.kind \in {"DestroyRow", "MoveRow"} =>
                     m.update.rowID \in DOMAIN T.rows
                /\ m.update.kind = "DestroyRow" =>
                     m.update.index = T.rows[m.update.rowID]
                /\ m.update.kind = "MoveRow" =>
                     m.update.start = T.rows[m.update.rowID])
  /\ [][\A v \in DOMAIN history :
          /\ v \in DOMAIN history'
          /\ history'[v] = history[v]
          /\ msgs'[history[v]] = msgs[history[v]]]_vars

\* The history holds a MoveRow of a row that was not the first, and the
\* handler that accepted it told both clients, each of which applied the
\* update to its mirror.
HistoryStableWitness ==
  \E i \in 1..Len(log) :
    /\ log[i].outcome = "accepted"
    /\ history[log[i].version] = log[i].uuid
    /\ msgs[log[i].uuid].update.kind = "MoveRow"
    /\ msgs[log[i].uuid].update.start > 0
    /\ \A c \in Clients : log[i].told[c] # <<>>

\* The row index map of T is the inverse of its row order.
RowMapConsistent(T) ==
  /\ DOMAIN T.rows = {T.order[i] : i \in 1..Len(T.order)}
  /\ \A i \in 1..Len(T.order) : T.rows[T.order[i]] = i - 1

\* The table Client.getData builds for c from the mirror and the outbox.
GetDataClone(c) ==
  IF online[c] THEN cTable[c]
  ELSE ReplayFrom(msgs, outbox[c], 1, TableCopy(cTable[c])).table

\* C36 (row index map): in the server's table, in every client's mirror and
\* in the table getData builds for every client, the row index map has an
\* entry for exactly the rows of the order, and maps each to its position.
RowMapInv ==
  /\ RowMapConsistent(table)
  /\ \A c \in Clients :
       /\ RowMapConsistent(cTable[c])
       /\ RowMapConsistent(GetDataClone(c))

\* The server's table has two rows, and an offline client has moved a row
\* in its outbox: the table getData builds orders the rows differently from
\* the mirror.
RowMapInvWitness ==
  /\ Len(table.order) = 2
  /\ \E c \in Clients :
       /\ ~online[c]
       /\ Len(cTable[c].order) = 2
       /\ Len(GetDataClone(c).order) = 2
       /\ GetDataClone(c).order # cTable[c].order

====
